---- MODULE Spec2Model ----
(***************************************************************************)
(* bdaysync: CardDAV -> CalDAV birthday synchronisation.                   *)
(*                                                                         *)
(* Three specifications share this module:                                 *)
(*   SpecSched : SchedulerService.run_daemon (scheduler.py)                *)
(*   SpecFn    : the pure due-check functions applied to drawn inputs      *)
(*   Spec      : CalDAVClient.create_birthday_event and main_sync          *)
(*                                                                         *)
(* Time is in whole seconds since Monday 2024-01-01 00:00:00 local time.   *)
(* Text is a sequence of one-character strings.                            *)
(***************************************************************************)
EXTENDS Integers, Sequences, FiniteSets, TLC

VARIABLES
    \* ---- SchedulerService (scheduler.py) ----
    schedCfg,           \* get_scheduler_config(): the four scheduler settings
    pc,                 \* position of run_daemon
    now,                \* wall clock, seconds
    running,            \* self.running
    last_sync,          \* self.last_sync: <<>> is None, <<t>> is a timestamp
    sync_needed,        \* local of run_daemon
    diagnostic_needed,  \* local of run_daemon
    loop_count,         \* local of run_daemon
    end_time,           \* local of _wait_with_interrupt_check
    exit_code,          \* <<>> or <<n>>: what run_once returned / sys.exit was given
    \* ---- observations of the scheduler's run (history) ----
    tickOps,            \* operations executed by the current tick, in order
    tickTime,           \* <<t>>: time of the latest tick's due-check
    prevTick,           \* <<t>>: time of the due-check before that
    sigAt,              \* <<>> or <<[time, pc, loop]>>: when/where the signal arrived
    opsAfterSig,        \* operations started after the signal
    lastOutcome,        \* outcome of the latest operation
    lastSyncEnd,        \* <<t>>: when the latest sync pass returned
    pollSyncs,          \* sync passes executed by the polling loop
    failures,           \* operations that failed or raised so far
    slowOps,            \* operations that took time so far
    initialSyncs,       \* initial sync passes run_daemon executed
    \* ---- pure functions applied to drawn inputs ----
    fn,
    \* ---- CalDAVClient and main_sync (caldav_client.py, main.py) ----
    config,                \* get_birthday_config() as loaded by _load_config
    calendar,           \* the remote calendar: day -> events in server order
    current_year,       \* datetime.now().year
    passPc,             \* position of main_sync: "idle", "loop" or "done"
    records,            \* <<>> or <<cards>>: the address book the pass fetched
    contacts,           \* local of main_sync
    idx,                \* index of the contact being processed
    step,               \* 1: current year, 2: next year
    created_count,      \* local of main_sync
    passResult,         \* <<>> or <<b>>: what main_sync returned
    \* ---- observations of the reconciler's run (history) ----
    passCalls,          \* create_birthday_event calls of the current pass
    lastCall,           \* the latest create_birthday_event call
    sinkErrors,         \* sink operations that failed so far
    ops,                \* passes, direct calls and restarts so far
    renderings,         \* what str.format renders, per configuration and contact
    addressbooks        \* what get_contacts returns, per address book content

schedVars == <<schedCfg, pc, now, running, last_sync, sync_needed,
               diagnostic_needed, loop_count, end_time, tickOps, tickTime,
               prevTick, sigAt, opsAfterSig, lastOutcome, lastSyncEnd,
               pollSyncs, failures, slowOps, exit_code, initialSyncs>>

bdayVars == <<config, calendar, current_year, passPc, records, contacts, idx, step,
              created_count, passResult, passCalls, lastCall, sinkErrors, ops,
              renderings, addressbooks>>

vars == <<schedVars, fn, bdayVars>>

(***************************************************************************)
(* Bounds of the model.                                                    *)
(***************************************************************************)
ShortHorizon == 480      \* seconds of daemon run explored with minute-scale crons
LongHorizon == 3800      \* seconds explored in interval / invalid-cron mode
MaxOpSeconds == 75       \* duration of a slow sync or diagnostic pass
MaxFailures == 2         \* passes that fail or raise in one run
MaxSlowOps == 2          \* passes that take MaxOpSeconds in one run
MaxIntervalHours == 4    \* SYNC_INTERVAL_HOURS values drawn for the due-check
MaxSinkErrors == 1       \* calendar lookups or saves that fail in one run
MaxOps == 4              \* passes, direct calls and restarts in one run

(***************************************************************************)
(* Program constants.                                                      *)
(***************************************************************************)
TickSeconds == 60        \* _wait_with_interrupt_check(60)
SliceSeconds == 1        \* time.sleep(min(1, ...))
CronWindowSeconds == 60  \* timedelta(minutes=1)
HourSeconds == 3600      \* timedelta(hours=...)

None == <<>>
Some(x) == <<x>>

Min2(a, b) == IF a <= b THEN a ELSE b

(***************************************************************************)
(* Text: Python str as a sequence of one-character strings.                *)
(***************************************************************************)
Uppers == <<"A","B","C","D","E","F","G","H","I","J","K","L","M",
            "N","O","P","Q","R","S","T","U","V","W","X","Y","Z">>
Lowers == <<"a","b","c","d","e","f","g","h","i","j","k","l","m",
            "n","o","p","q","r","s","t","u","v","w","x","y","z">>
Digits == <<"0","1","2","3","4","5","6","7","8","9">>

\* The lower-case letter of every upper-case letter.
LowerOf == [c \in {Uppers[i] : i \in 1..26} |-> Lowers[CHOOSE i \in 1..26 : Uppers[i] = c]]

LowerChar(c) == IF c \in DOMAIN LowerOf THEN LowerOf[c] ELSE c

\* str.lower()
Lower(s) == [i \in 1..Len(s) |-> LowerChar(s[i])]

\* s[i:i+len(sub)] == sub
MatchAt(s, sub, i) ==
    /\ i + Len(sub) - 1 <= Len(s)
    /\ \A k \in 1..Len(sub) : s[i + k - 1] = sub[k]

\* sub in s
Contains(s, sub) == \E i \in 1..(Len(s) + 1) : MatchAt(s, sub, i)

\* s.startswith(prefix)
StartsWith(s, prefix) == MatchAt(s, prefix, 1)

\* The least element of a non-empty set of integers.
MinOf(S) == CHOOSE x \in S : \A y \in S : x <= y

\* s.find(sub): the first position where sub occurs in s, or 0.
Find(s, sub) ==
    LET hits == {i \in 1..(Len(s) + 1) : MatchAt(s, sub, i)} IN
    IF hits = {} THEN 0 ELSE MinOf(hits)

\* s.replace(old, new) for a non-empty old: leftmost, non-overlapping.
RECURSIVE Replace(_, _, _)
Replace(s, old, new) ==
    LET at == Find(s, old) IN
    IF at = 0 THEN s
    ELSE SubSeq(s, 1, at - 1) \o new
            \o Replace(SubSeq(s, at + Len(old), Len(s)), old, new)

\* str(n) for a natural number
RECURSIVE NatStr(_)
NatStr(n) == IF n < 10 THEN <<Digits[n + 1]>> ELSE NatStr(n \div 10) \o <<Digits[(n % 10) + 1]>>

\* str(n)
IntStr(n) == IF n < 0 THEN <<"-">> \o NatStr(0 - n) ELSE NatStr(n)

\* n zero-padded to two digits (strftime %m, %d)
Pad2(n) == IF n < 10 THEN <<"0">> \o NatStr(n) ELSE NatStr(n)

IsDigit(c) == \E i \in 1..10 : Digits[i] = c

(***************************************************************************)
(* str.format with keyword arguments only.  kwargs maps the            *)
(* text of a field name to its rendered value.  The result is the text or  *)
(* the exception raised by the first bad replacement field, left to right. *)
(***************************************************************************)
Rendered(t) == [err |-> "none", text |-> t]
Raised(e) == [err |-> e, text |-> <<>>]

\* The position of the first "}" at or after i, or 0.
FindClose(s, i) ==
    LET hits == {k \in i..Len(s) : s[k] = "}"} IN
    IF hits = {} THEN 0 ELSE MinOf(hits)

\* The position of the first brace at or after i, or 0.
FindBrace(s, i) ==
    LET hits == {k \in i..Len(s) : s[k] \in {"{", "}"}} IN
    IF hits = {} THEN 0 ELSE MinOf(hits)

\* One replacement field {field}: positional (empty or a number) finds
\* no positional argument, a keyword is looked up in kwargs.
FieldValue(field, kwargs) ==
    IF Contains(field, <<"{">>) THEN Raised("ValueError")
    ELSE IF \A k \in 1..Len(field) : IsDigit(field[k]) THEN Raised("IndexError")
    ELSE IF field \in DOMAIN kwargs THEN Rendered(kwargs[field])
    ELSE Raised("KeyError")

\* pre followed by the rendering rest, or the exception of rest.
Then(pre, rest) == IF rest.err = "none" THEN Rendered(pre \o rest.text) ELSE rest

\* str.format from position i on: literal text up to the next brace, then
\* an escaped brace ({{ or }}), a replacement field, or a stray brace.
RECURSIVE FormatFrom(_, _, _)
FormatFrom(tpl, i, kwargs) ==
    LET j == FindBrace(tpl, i) IN
    IF j = 0 THEN Rendered(SubSeq(tpl, i, Len(tpl)))
    ELSE LET lit == SubSeq(tpl, i, j - 1) IN
         IF j < Len(tpl) /\ tpl[j + 1] = tpl[j]
         THEN Then(lit \o <<tpl[j]>>, FormatFrom(tpl, j + 2, kwargs))
         ELSE IF tpl[j] = "}" THEN Raised("ValueError")
         ELSE LET close == FindClose(tpl, j + 1) IN
              IF close = 0 THEN Raised("ValueError")
              ELSE LET val == FieldValue(SubSeq(tpl, j + 1, close - 1), kwargs) IN
                   IF val.err # "none" THEN val
                   ELSE Then(lit \o val.text, FormatFrom(tpl, close + 1, kwargs))

\* template.format with the keyword arguments kwargs
Format(tpl, kwargs) == FormatFrom(tpl, 1, kwargs)

KwName == <<"n", "a", "m", "e">>
KwDays == <<"d", "a", "y", "s">>

\* .format(name=name)
NameArgs(name) == (KwName :> name)

\* .format(name=name, days=days_before)
NameDaysArgs(name, days) == (KwName :> name) @@ (KwDays :> IntStr(days))

\* The exceptions _format_reminder_message catches (line 156).
ReminderCaught == {"KeyError", "ValueError", "AttributeError"}

\* _format_reminder_message, the fallback phrases (lines 159-165).
ReminderFallback(name, days_before) ==
    IF days_before = 0 THEN <<"T", "o", "d", "a", "y", " ", "i", "s", " ">> \o name \o <<"'", "s", " ", "b", "i", "r", "t", "h", "d", "a", "y", "!">>
    ELSE IF days_before = 1 THEN <<"T", "o", "m", "o", "r", "r", "o", "w", " ", "i", "s", " ">> \o name \o <<"'", "s", " ", "b", "i", "r", "t", "h", "d", "a", "y", "!">>
    ELSE name \o <<"'", "s", " ", "b", "i", "r", "t", "h", "d", "a", "y", " ", "i", "s", " ", "i", "n", " ">> \o IntStr(days_before) \o <<" ", "d", "a", "y", "s", "!">>

\* A try block without the "1 days" correction of line 152.
ReminderTry_NoSingular(tpl, name, days_before) ==
    Format(tpl, NameDaysArgs(name, days_before))

\* _format_reminder_message, the try block (lines 138-155).
ReminderTry(tpl, name, days_before) ==
    LET formatted == Format(tpl, NameDaysArgs(name, days_before)) IN
    IF days_before = 0
    THEN IF Contains(tpl, <<"{", "d", "a", "y", "s", "}">>)
         THEN IF formatted.err # "none" THEN formatted
              ELSE Rendered(Replace(Replace(Replace(formatted.text,
                                <<"i", "n", " ", "0", " ", "d", "a", "y", "s">>, <<"t", "o", "d", "a", "y">>),
                                <<"i", "n", " ", "0", " ", "d", "a", "y">>, <<"t", "o", "d", "a", "y">>),
                                <<"i", "s", " ", "i", "n", " ", "t", "o", "d", "a", "y">>, <<"i", "s", " ", "t", "o", "d", "a", "y">>))
         ELSE Rendered(<<"T", "o", "d", "a", "y", " ", "i", "s", " ">> \o name \o <<"'", "s", " ", "b", "i", "r", "t", "h", "d", "a", "y", "!">>)
    ELSE IF days_before = 1
    THEN IF formatted.err # "none" THEN formatted
         ELSE Rendered(Replace(formatted.text, <<"1", " ", "d", "a", "y", "s">>, <<"1", " ", "d", "a", "y">>))
    ELSE formatted

\* CalDAVClient._format_reminder_message: the message, or the exception
\* that escapes it.
FormatReminderMessage(tpl, name, days_before) ==
    LET tried == ReminderTry(tpl, name, days_before) IN
    IF tried.err \in ReminderCaught THEN Rendered(ReminderFallback(name, days_before))
    ELSE tried

(***************************************************************************)
(* Dates (datetime.date).                                                  *)
(***************************************************************************)
IsLeap(y) == (y % 4 = 0 /\ y % 100 # 0) \/ y % 400 = 0

DaysInMonth(y, m) ==
    IF m = 2 THEN (IF IsLeap(y) THEN 29 ELSE 28)
    ELSE IF m \in {4, 6, 9, 11} THEN 30 ELSE 31

\* A date check that accepts 29 February in every year.
ValidDate_AnyFeb29(y, m, d) == m \in 1..12 /\ d \in 1..(IF m = 2 THEN 29 ELSE DaysInMonth(y, m))

\* birthday.replace(year=y) does not raise ValueError
ValidDate(y, m, d) == m \in 1..12 /\ d \in 1..DaysInMonth(y, m)

\* date.strftime('%Y%m%d')
DateStr(date) == NatStr(date[1]) \o Pad2(date[2]) \o Pad2(date[3])

AbsInt(n) == IF n < 0 THEN 0 - n ELSE n

(***************************************************************************)
(* Contacts (the dicts CardDAVClient.get_contacts returns): a name and a   *)
(* birthday, of which only month and day are used.                         *)
(***************************************************************************)
Contact(n, m, d) == [name |-> n, birthday |-> <<m, d>>]

Ann == Contact(<<"A", "n", "n">>, 6, 15)
MaryAnn == Contact(<<"M", "a", "r", "y", " ", "A", "n", "n">>, 6, 15)
Zoe == Contact(<<"Z", "o", "e">>, 2, 29)

ContactUniverse == {Ann, MaryAnn, Zoe}

CurrentYears == {2027}
TargetYears == UNION {{y, y + 1} : y \in CurrentYears}

TargetDates ==
    { <<y, c.birthday[1], c.birthday[2]>> : y \in TargetYears, c \in ContactUniverse }

(***************************************************************************)
(* CardDAVClient: the address book as the vCard resources it lists.  A     *)
(* resource is what the GET and vobject.readOne make of it: whether the    *)
(* GET answered 200, whether the text starts with BEGIN:VCARD, whether     *)
(* vobject can read it, and the FN, N and BDAY values it carries (BDAY as  *)
(* the text vobject hands over).                                           *)
(***************************************************************************)
VCard(fetched, begins, readable, fn_value, n_value, bday) ==
    [fetched |-> fetched, begins |-> begins, readable |-> readable,
     fn |-> fn_value, n |-> n_value, bday |-> bday]

\* str.strip()
Strip(s) ==
    IF \A i \in 1..Len(s) : s[i] = " " THEN <<>>
    ELSE SubSeq(s,
                CHOOSE i \in 1..Len(s) : s[i] # " " /\ \A j \in 1..(i - 1) : s[j] = " ",
                CHOOSE i \in 1..Len(s) : s[i] # " " /\ \A j \in (i + 1)..Len(s) : s[j] = " ")

\* s.split('T')[0]
BeforeT(s) ==
    IF \A i \in 1..Len(s) : s[i] # "T" THEN s
    ELSE SubSeq(s, 1, (CHOOSE i \in 1..Len(s) :
                            s[i] = "T" /\ \A j \in 1..(i - 1) : s[j] # "T") - 1)

\* s.count(ch) for a single character
Count(s, ch) == Cardinality({i \in 1..Len(s) : s[i] = ch})

\* s.isdigit()
IsDigits(s) == Len(s) > 0 /\ \A i \in 1..Len(s) : IsDigit(s[i])

DigitVal(c) == (CHOOSE i \in 1..10 : Digits[i] = c) - 1

\* int(s) for a text of digits
RECURSIVE NatValTo(_, _)
NatValTo(s, n) == IF n = 0 THEN 0 ELSE 10 * NatValTo(s, n - 1) + DigitVal(s[n])

NatVal(s) == NatValTo(s, Len(s))

\* strptime directives: the value of a field, or -1 when the field does not
\* match the directive.  %Y is four digits; %m is 1[0-2]|0[1-9]|[1-9]; %d is
\* 3[01]|[12]\d|0[1-9]|[1-9]| [1-9].
YearField(s) == IF Len(s) = 4 /\ IsDigits(s) THEN NatVal(s) ELSE 0 - 1

MonthField(s) ==
    IF Len(s) \in {1, 2} /\ IsDigits(s)
    THEN LET v == NatVal(s) IN IF v >= 1 /\ v <= 12 THEN v ELSE 0 - 1
    ELSE 0 - 1

DayField(s) ==
    IF Len(s) \in {1, 2} /\ IsDigits(s)
    THEN LET v == NatVal(s) IN IF v >= 1 /\ v <= 31 THEN v ELSE 0 - 1
    ELSE IF Len(s) = 2 /\ s[1] = " " /\ IsDigit(s[2]) /\ s[2] # "0" THEN DigitVal(s[2])
    ELSE 0 - 1

\* datetime.strptime(...).date() from the three fields: None for ValueError.
StrptimeFields(y, m, d) ==
    LET year == YearField(y)
        month == MonthField(m)
        day == DayField(d)
    IN  IF year >= 1 /\ month >= 1 /\ day >= 1 /\ ValidDate(year, month, day)
        THEN Some(<<year, month, day>>)
        ELSE None

\* The three fields of a text around its separators: the text must hold
\* exactly two of them, since no directive matches a separator.
FieldsOf(s, sep) ==
    IF Count(s, sep) # 2 THEN None
    ELSE LET first == CHOOSE i \in 1..Len(s) : s[i] = sep /\ \A j \in 1..(i - 1) : s[j] # sep
             last == CHOOSE i \in 1..Len(s) : s[i] = sep /\ \A j \in (i + 1)..Len(s) : s[j] # sep
         IN  Some(<<SubSeq(s, 1, first - 1), SubSeq(s, first + 1, last - 1),
                    SubSeq(s, last + 1, Len(s))>>)

\* strptime(s, '%Y-%m-%d')
StrptimeYmd(s) ==
    LET f == FieldsOf(s, "-") IN
    IF f = None THEN None ELSE StrptimeFields(f[1][1], f[1][2], f[1][3])

\* strptime(s, '%m/%d/%Y')
StrptimeMdy(s) ==
    LET f == FieldsOf(s, "/") IN
    IF f = None THEN None ELSE StrptimeFields(f[1][3], f[1][1], f[1][2])

\* strptime(s, '%d/%m/%Y')
StrptimeDmy(s) ==
    LET f == FieldsOf(s, "/") IN
    IF f = None THEN None ELSE StrptimeFields(f[1][3], f[1][2], f[1][1])

\* _parse_vcard lines 289-315: the date of a BDAY text, None where the
\* method returns None (unknown format or ValueError).
ParseBday(bday) ==
    LET bday_clean == BeforeT(Strip(bday)) IN
    IF Len(bday_clean) = 8 /\ IsDigits(bday_clean)
    THEN StrptimeFields(SubSeq(bday_clean, 1, 4), SubSeq(bday_clean, 5, 6),
                        SubSeq(bday_clean, 7, 8))
    ELSE IF Len(bday_clean) = 10 /\ Count(bday_clean, "-") = 2
    THEN StrptimeYmd(bday_clean)
    ELSE IF Len(bday_clean) = 10 /\ Count(bday_clean, "/") = 2
    THEN LET mdy == StrptimeMdy(bday_clean) IN
         IF mdy # None THEN mdy ELSE StrptimeDmy(bday_clean)
    ELSE IF StartsWith(bday_clean, <<"-", "-">>)
    THEN StrptimeYmd(<<"2", "0", "0", "0", "-">> \o SubSeq(bday_clean, 3, Len(bday_clean)))
    ELSE None

\* _parse_vcard lines 271-282: the name of the contact.
VCardName(card) ==
    IF card.fn # None THEN Strip(card.fn[1])
    ELSE IF card.n # None
    THEN LET given == card.n[1][1]
             family == card.n[1][2]
         IN  IF given # <<>> /\ family # <<>> THEN given \o <<" ">> \o family
             ELSE IF given # <<>> THEN given
             ELSE IF family # <<>> THEN family
             ELSE <<"U", "n", "k", "n", "o", "w", "n">>
    ELSE <<"U", "n", "k", "n", "o", "w", "n">>

\* A parser that keeps a contact whose birthday it could not read, with the
\* placeholder date.
ParseVcard_KeepUnparsed(card) ==
    IF ~card.begins \/ ~card.readable \/ card.bday = None THEN None
    ELSE LET date == ParseBday(card.bday[1]) IN
         IF date = None THEN Some(Contact(VCardName(card), 1, 1))
         ELSE Some(Contact(VCardName(card), date[1][2], date[1][3]))

\* CardDAVClient._parse_vcard: Some(contact), or None when the text is not
\* a vCard, vobject cannot read it, or it has no readable birthday.
ParseVcard(card) ==
    IF ~card.begins \/ ~card.readable \/ card.bday = None THEN None
    ELSE LET date == ParseBday(card.bday[1]) IN
         IF date = None THEN None
         ELSE Some(Contact(VCardName(card), date[1][2], date[1][3]))

\* _get_contacts_from_addressbook lines 173-194: what one resource adds to
\* the contacts.
ContactOf(card) == IF card.fetched THEN ParseVcard(card) ELSE None

\* CardDAVClient.get_contacts: the contacts of the resources that parse, in
\* the order of the resources.
GetContacts(cards) ==
    LET parsed == [i \in 1..Len(cards) |-> ContactOf(cards[i])]
        kept == SelectSeq(parsed, LAMBDA p : p # None)
    IN  [i \in 1..Len(kept) |-> kept[i][1]]

\* FN:Ann / BDAY:1990-06-15
AnnCard == VCard(TRUE, TRUE, TRUE, Some(<<"A", "n", "n">>), None, Some(<<"1", "9", "9", "0", "-", "0", "6", "-", "1", "5">>))
\* N:Ann;Mary / BDAY:--06-15
MaryAnnCard ==
    VCard(TRUE, TRUE, TRUE, None, Some(<<<<"M", "a", "r", "y">>, <<"A", "n", "n">>>>), Some(<<"-", "-", "0", "6", "-", "1", "5">>))
\* FN:Zoe / BDAY:20000229T000000Z
ZoeCard == VCard(TRUE, TRUE, TRUE, Some(<<" ", "Z", "o", "e", " ">>), None, Some(<<"2", "0", "0", "0", "0", "2", "2", "9", "T", "0", "0", "0", "0", "0", "0", "Z">>))
\* FN:Bob / BDAY:--0615, the basic format _parse_vcard cannot read
UnparsableBdayCard == VCard(TRUE, TRUE, TRUE, Some(<<"B", "o", "b">>), None, Some(<<"-", "-", "0", "6", "1", "5">>))
\* a resource vobject.readOne raises on
MalformedCard == VCard(TRUE, TRUE, FALSE, None, None, None)

\* What the address book may hold when a pass fetches it.
RecordLists ==
    { <<>>,
      <<AnnCard, UnparsableBdayCard, MaryAnnCard>>,
      <<ZoeCard, MalformedCard, AnnCard>> }

\* The contact lists a pass may work on.
ContactLists == {GetContacts(cards) : cards \in RecordLists}

\* What get_contacts returns for every address book content, tabulated.
AddressBookTable ==
    {[cards |-> cards, contacts |-> GetContacts(cards)] : cards \in RecordLists}

(***************************************************************************)
(* Birthday configuration (config.get_birthday_config, _load_config).      *)
(* "@" stands for the cake emoji of the default title.                     *)
(***************************************************************************)
DefaultBdayCfg ==
    [ event_title_template |-> <<"@", " ", "{", "n", "a", "m", "e", "}", "'", "s", " ", "B", 
           "i", "r", "t", "h", "d", "a", "y">>,
      event_description_template |-> <<"B", "i", "r", "t", "h", "d", "a", "y", " ", "o", "f", " ", 
           "{", "n", "a", "m", "e", "}">>,
      reminder_days |-> <<1>>,
      reminder_template |-> <<"R", "e", "m", "i", "n", "d", "e", "r", ":", " ", "{", "n", 
           "a", "m", "e", "}", "'", "s", " ", "b", "i", "r", "t", "h", 
           "d", "a", "y", " ", "i", "s", " ", "i", "n", " ", "{", "d", 
           "a", "y", "s", "}", " ", "d", "a", "y", "s", "!">>,
      event_category |-> <<"B", "i", "r", "t", "h", "d", "a", "y">>,
      update_existing |-> TRUE ]

\* BIRTHDAY_EVENT_TITLE="Party: {name}"
PartyBdayCfg ==
    [DefaultBdayCfg EXCEPT !.event_title_template = <<"P", "a", "r", "t", "y", ":", " ", "{", "n", "a", "m", "e", 
           "}">>]

BdayConfigs == {DefaultBdayCfg, PartyBdayCfg}

(***************************************************************************)
(* CalDAVClient.  The calendar maps a day to the events dated that day, in *)
(* the order the server lists them.  The time-range search of a day        *)
(* answers with the events dated that day: the yearly recurrences of the   *)
(* events of earlier years are not expanded into it.                       *)
(***************************************************************************)
\* A UID prefix that keeps the case of the name.
ExpectedUidPrefix_KeepCase(name) ==
    <<"b", "i", "r", "t", "h", "d", "a", "y", "-">> \o Replace(name, <<" ">>, <<"-">>)

\* f"birthday-{name.replace(' ', '-').lower()}"
ExpectedUidPrefix(name) == <<"b", "i", "r", "t", "h", "d", "a", "y", "-">> \o Lower(Replace(name, <<" ">>, <<"-">>))

\* event_uid (create_birthday_event line 93)
EventUid(name, date) == ExpectedUidPrefix(name) \o <<"-">> \o DateStr(date)

\* The reminder messages of the configured reminders, in order.
AlarmMessages(c, name) ==
    [i \in 1..Len(c.reminder_days) |->
        FormatReminderMessage(c.reminder_template, name, c.reminder_days[i])]

\* Some reminder message raises out of _format_reminder_message.
AlarmsRaise(c, name) ==
    \E i \in 1..Len(c.reminder_days) : AlarmMessages(c, name)[i].err # "none"

\* The VALARMs added for reminders i.. of the configuration (the loop of
\* lines 115-122): trigger in days, and the message.
RECURSIVE AlarmsFrom(_, _, _)
AlarmsFrom(c, name, i) ==
    IF i > Len(c.reminder_days) THEN <<>>
    ELSE << [trigger |-> 0 - c.reminder_days[i],
             description |->
                FormatReminderMessage(c.reminder_template, name,
                                      c.reminder_days[i]).text] >>
            \o AlarmsFrom(c, name, i + 1)

Alarms(c, name) == AlarmsFrom(c, name, 1)

\* What create_birthday_event renders from the configuration and the
\* contact alone (lines 80-81, 93, 115-122), tabulated for every pair.
RenderingsOf(configs, people) ==
    { [ config |-> c,
        contact |-> k,
        title |-> Format(c.event_title_template, NameArgs(k.name)),
        description |-> Format(c.event_description_template, NameArgs(k.name)),
        alarmsRaise |-> AlarmsRaise(c, k.name),
        alarms |-> IF AlarmsRaise(c, k.name) THEN <<>> ELSE Alarms(c, k.name),
        uidPrefix |-> ExpectedUidPrefix(k.name) ] :
      c \in configs, k \in people }

RenderingTable == RenderingsOf(BdayConfigs, ContactUniverse)

Rendering(c, k) == CHOOSE r \in renderings : r.config = c /\ r.contact = k

\* The VEVENT create_birthday_event builds (lines 95-122).
NewEvent(c, contact, date, title, description) ==
    [ uid |-> Rendering(c, contact).uidPrefix \o <<"-">> \o DateStr(date),
      date |-> date,
      summary |-> Some(title),
      description |-> Some(description),
      categories |-> <<c.event_category>>,
      rrule |-> <<"F", "R", "E", "Q", "=", "Y", "E", "A", "R", "L", "Y">>,
      alarms |-> Rendering(c, contact).alarms ]

\* _find_existing_event, the test applied to one event (lines 192-202).
EventMatches(e, name, category, expected_uid_prefix) ==
    /\ e.summary # None
    /\ \/ /\ Contains(e.summary[1], name)
          /\ \/ Contains(Lower(e.summary[1]), Lower(category))
             \/ Contains(Lower(e.summary[1]), <<"b", "i", "r", "t", "h", "d", "a", "y">>)
       \/ StartsWith(e.uid, expected_uid_prefix)

\* _find_existing_event over the events the search returned for the day:
\* the index of the first match in server order, 0 for None.
FindExistingEvent(events, contact, c) ==
    LET Hit(e) == EventMatches(e, contact.name, c.event_category,
                               Rendering(c, contact).uidPrefix)
        hits == {i \in 1..Len(events) : Hit(events[i])}
    IN  IF hits = {} THEN 0 ELSE MinOf(hits)

InsertAt(seq, pos, x) == SubSeq(seq, 1, pos - 1) \o <<x>> \o SubSeq(seq, pos, Len(seq))

\* calendar.save_event: a PUT to the resource named by the UID; a new
\* resource appears at position pos of the server's order.
SaveEvent(events, e, pos) ==
    IF \E i \in 1..Len(events) : events[i].uid = e.uid
    THEN [i \in 1..Len(events) |-> IF events[i].uid = e.uid THEN e ELSE events[i]]
    ELSE InsertAt(events, pos, e)

Outcome(events, ret, kind, lookups, saves) ==
    [events |-> events, ret |-> ret, kind |-> kind, lookups |-> lookups, saves |-> saves]

\* A comparison of the reminder days in the order they are listed.
RemindersEqual_Ordered(current, expected) == current = expected

\* _update_existing_event lines 262-265: the reminders need no update.
RemindersEqual(current, expected) ==
    SortSeq(current, LAMBDA a, b : a < b) = SortSeq(expected, LAMBDA a, b : a < b)

\* An update that adds the new alarms to the ones the event has.
UpdatedEvent_KeepOldAlarms(c, event, contact, new_title, new_description) ==
    [event EXCEPT !.summary = Some(new_title),
                  !.description = Some(new_description),
                  !.categories = <<c.event_category>>,
                  !.alarms = event.alarms \o Rendering(c, contact).alarms]

\* _update_existing_event lines 273-300: the event with its summary,
\* description, categories and alarms replaced.
UpdatedEvent(c, event, contact, new_title, new_description) ==
    [event EXCEPT !.summary = Some(new_title),
                  !.description = Some(new_description),
                  !.categories = <<c.event_category>>,
                  !.alarms = Rendering(c, contact).alarms]

\* CalDAVClient._update_existing_event on the event at index i.
UpdateExistingEvent(c, events, i, contact, new_title, new_description, saveOk) ==
    LET event == events[i]
        current_title == IF event.summary # None THEN event.summary[1] ELSE <<>>
        current_description ==
            IF event.description # None THEN event.description[1] ELSE <<>>
        current_reminders ==
            [k \in 1..Len(event.alarms) |-> AbsInt(event.alarms[k].trigger)]
        updated == UpdatedEvent(c, event, contact, new_title, new_description)
    IN  IF /\ current_title = new_title
           /\ current_description = new_description
           /\ RemindersEqual(current_reminders, c.reminder_days)
        THEN Outcome(events, FALSE, "skipped", 1, 0)
        ELSE IF Rendering(c, contact).alarmsRaise
        THEN Outcome(events, FALSE, "failed", 1, 0)
        ELSE IF ~saveOk THEN Outcome(events, FALSE, "failed", 1, 1)
        ELSE Outcome([events EXCEPT ![i] = updated], TRUE, "updated", 1, 1)

\* A client that updates whatever UPDATE_EXISTING_EVENTS says.
UpdatesExisting_Always(c) == TRUE

\* create_birthday_event line 85: if self.update_existing
UpdatesExisting(c) == c.update_existing

\* CalDAVClient.create_birthday_event for the events of the target day.
\* lookupOk: the calendar search (or its fallback) answered; saveOk: the
\* save was accepted.  The outcome tells how many lookups and saves ran.
CreateOnDay(c, events, contact, date, lookupOk, saveOk, pos) ==
    LET title == Rendering(c, contact).title
        description == Rendering(c, contact).description
        found == IF lookupOk THEN FindExistingEvent(events, contact, c) ELSE 0
    IN  IF title.err # "none" \/ description.err # "none"
        THEN Outcome(events, FALSE, "failed", 0, 0)
        ELSE IF found # 0
        THEN IF UpdatesExisting(c)
             THEN UpdateExistingEvent(c, events, found, contact, title.text,
                                      description.text, saveOk)
             ELSE Outcome(events, FALSE, "skipped", 1, 0)
        ELSE IF Rendering(c, contact).alarmsRaise
        THEN Outcome(events, FALSE, "failed", 1, 0)
        ELSE IF ~saveOk THEN Outcome(events, FALSE, "failed", 1, 1)
        ELSE Outcome(SaveEvent(events,
                               NewEvent(c, contact, date, title.text, description.text),
                               pos),
                     TRUE, "created", 1, 1)

\* CalDAVClient.create_birthday_event(contact, year): every exception is
\* caught and turned into False (lines 131-133).
CreateBirthdayEvent(c, cal, contact, year, lookupOk, saveOk, pos) ==
    LET date == <<year, contact.birthday[1], contact.birthday[2]>> IN
    IF ~ValidDate(year, contact.birthday[1], contact.birthday[2])
    THEN [cal |-> cal, ret |-> FALSE, kind |-> "failed", lookups |-> 0, saves |-> 0]
    ELSE LET o == CreateOnDay(c, cal[date], contact, date, lookupOk, saveOk, pos) IN
         [cal |-> [cal EXCEPT ![date] = o.events], ret |-> o.ret, kind |-> o.kind,
          lookups |-> o.lookups, saves |-> o.saves]

CallRecord(contact, year, o, lookupOk, saveOk) ==
    [contact |-> contact, year |-> year, ret |-> o.ret, kind |-> o.kind,
     sinkError |-> (~lookupOk \/ ~saveOk)]

\* One call of create_birthday_event against the calendar, with the sink's
\* behaviour drawn: a fault is drawn only where the call reaches the sink.
Reconcile(contact, year) ==
    LET day == <<year, contact.birthday[1], contact.birthday[2]>>
        Call(lookupOk, saveOk, pos) ==
            CreateBirthdayEvent(config, calendar, contact, year, lookupOk, saveOk, pos)
    IN
    \E lookupOk \in BOOLEAN, saveOk \in BOOLEAN :
      LET faults == (IF lookupOk THEN 0 ELSE 1) + (IF saveOk THEN 0 ELSE 1) IN
      /\ sinkErrors + faults <= MaxSinkErrors
      /\ \E o \in {Call(lookupOk, saveOk, 1)} :
            /\ ~lookupOk => o.lookups = 1
            /\ ~saveOk => o.saves = 1
            /\ IF o.kind = "created" /\ Len(o.cal[day]) > Len(calendar[day])
               THEN \E pos \in 1..Len(o.cal[day]) :
                        calendar' = Call(lookupOk, saveOk, pos).cal
               ELSE calendar' = o.cal
            /\ sinkErrors' = sinkErrors + faults
            /\ lastCall' = Some(CallRecord(contact, year, o, lookupOk, saveOk))

\* The reconciler before its first operation, with the renderings of table.
BdayStart(table) ==
    /\ config = DefaultBdayCfg
    /\ calendar = [d \in TargetDates |-> <<>>]
    /\ current_year \in CurrentYears
    /\ passPc = "idle"
    /\ records = None
    /\ contacts = <<>>
    /\ idx = 0
    /\ step = 0
    /\ created_count = 0
    /\ passResult = None
    /\ passCalls = <<>>
    /\ lastCall = None
    /\ sinkErrors = 0
    /\ ops = 0
    /\ renderings = table
    /\ addressbooks = AddressBookTable

BdayInit == BdayStart(RenderingTable)

\* The reconciler at rest, for the specifications that do not run it.
BdayIdle == BdayInit

\* A direct call create_birthday_event(contact, year).
ReconcileCall ==
    /\ passPc # "loop"
    /\ ops < MaxOps
    /\ \E contact \in ContactUniverse : Reconcile(contact, current_year)
    /\ ops' = ops + 1
    /\ UNCHANGED <<config, current_year, passPc, records, contacts, idx, step,
                   created_count, passResult, passCalls>>

\* The process is restarted with a changed birthday configuration.
Reconfigure ==
    /\ passPc # "loop"
    /\ ops < MaxOps
    /\ \E c \in BdayConfigs \ {config} : config' = c
    /\ ops' = ops + 1
    /\ lastCall' = None
    /\ UNCHANGED <<calendar, current_year, passPc, records, contacts, idx, step,
                   created_count, passResult, passCalls, sinkErrors>>

\* main_sync lines 104-106: the pass goes on to the loop.
StartsLoop(fetched) == fetched # <<>>

\* main_sync lines 84-112: connect, fetch the contacts, start the loop.
\* connected: both clients were constructed (no exception before line 100);
\* cards: what the address book holds when get_contacts reads it.
StartPass ==
    /\ passPc # "loop"
    /\ ops < MaxOps
    /\ ops' = ops + 1
    /\ passCalls' = <<>>
    /\ created_count' = 0
    /\ \E connected \in BOOLEAN, book \in addressbooks :
        IF ~connected
        THEN /\ book.cards = <<>>
             /\ records' = None
             /\ passResult' = Some(FALSE)
             /\ passPc' = "done"
             /\ contacts' = <<>>
             /\ idx' = 0 /\ step' = 0
        ELSE IF ~StartsLoop(book.contacts)
        THEN /\ records' = Some(book.cards)
             /\ passResult' = Some(FALSE)
             /\ passPc' = "done"
             /\ contacts' = book.contacts
             /\ idx' = 0 /\ step' = 0
        ELSE /\ records' = Some(book.cards)
             /\ passResult' = None
             /\ passPc' = "loop"
             /\ contacts' = book.contacts
             /\ idx' = 1 /\ step' = 1
    /\ UNCHANGED <<config, calendar, current_year, lastCall, sinkErrors>>

\* A loop that drops the rest of a contact after a call that returned False.
AfterCall_DropOnFalse(i, st, ret) ==
    IF ret /\ st = 1 THEN <<i, 2>> ELSE <<i + 1, 1>>

\* main_sync lines 114-121: where the loop goes after a call returned ret.
\* <<index, step>>; the index past the last contact ends the loop.
AfterCall(i, st, ret) == IF st = 1 THEN <<i, 2>> ELSE <<i + 1, 1>>

\* main_sync lines 114-121: one create_birthday_event call of the loop.
PassReconcile ==
    /\ passPc = "loop"
    /\ idx <= Len(contacts)
    /\ Reconcile(contacts[idx], current_year + (step - 1))
    /\ created_count' = IF lastCall'[1].ret THEN created_count + 1 ELSE created_count
    /\ passCalls' = Append(passCalls, [idx |-> idx, year |-> current_year + (step - 1),
                                       ret |-> lastCall'[1].ret,
                                       kind |-> lastCall'[1].kind,
                                       sinkError |-> lastCall'[1].sinkError])
    /\ idx' = AfterCall(idx, step, lastCall'[1].ret)[1]
    /\ step' = AfterCall(idx, step, lastCall'[1].ret)[2]
    /\ UNCHANGED <<config, current_year, passPc, records, contacts, passResult, ops>>

\* main_sync lines 123-124: the loop is over, the pass returns True.
FinishPass ==
    /\ passPc = "loop"
    /\ idx > Len(contacts)
    /\ passResult' = Some(TRUE)
    /\ passPc' = "done"
    /\ UNCHANGED <<config, calendar, current_year, records, contacts, idx, step,
                   created_count, passCalls, lastCall, sinkErrors, ops>>

BdayNext ==
    \/ (ReconcileCall /\ UNCHANGED <<schedVars, fn, renderings, addressbooks>>)
    \/ (Reconfigure /\ UNCHANGED <<schedVars, fn, renderings, addressbooks>>)
    \/ (StartPass /\ UNCHANGED <<schedVars, fn, renderings, addressbooks>>)
    \/ (PassReconcile /\ UNCHANGED <<schedVars, fn, renderings, addressbooks>>)
    \/ (FinishPass /\ UNCHANGED <<schedVars, fn, renderings, addressbooks>>)

(***************************************************************************)
(* Cron expressions.  A valid five-field expression whose day-of-month and *)
(* month fields are "*" is the sets of minutes, hours and weekdays it      *)
(* names (weekday 0 is Sunday); anything croniter rejects is Invalid.      *)
(***************************************************************************)
AllMinutes == 0..59
AllHours == 0..23
AllDows == 0..6

Cron(mins, hrs, dows) == [valid |-> TRUE, minutes |-> mins, hours |-> hrs, dows |-> dows]
InvalidCron == [valid |-> FALSE, minutes |-> {}, hours |-> {}, dows |-> {}]

CronDaily6 == Cron({0}, {6}, AllDows)                               \* "0 6 * * *"
CronSunday7 == Cron({0}, {7}, {0})                                  \* "0 7 * * 0"
CronEvery2 == Cron({m \in AllMinutes : m % 2 = 0}, AllHours, AllDows) \* "*/2 * * * *"
CronEvery3 == Cron({m \in AllMinutes : m % 3 = 0}, AllHours, AllDows) \* "*/3 * * * *"
CronEveryMinute == Cron(AllMinutes, AllHours, AllDows)              \* "* * * * *"

\* Calendar fields of an instant; day 0 is a Monday, cron weekday 1.
MinuteOf(t) == (t \div 60) % 60
HourOf(t) == (t \div 3600) % 24
DowOf(t) == ((t \div 86400) + 1) % 7

\* The expression fires at instant t: a whole minute whose fields all match.
Fires(cron, t) ==
    /\ cron.valid
    /\ t % 60 = 0
    /\ MinuteOf(t) \in cron.minutes
    /\ HourOf(t) \in cron.hours
    /\ DowOf(t) \in cron.dows

\* The first matching minute of a day at or after minute-of-day lo, or -1.
FirstInDay(cron, lo) ==
    LET sameHour == {mi \in cron.minutes : mi >= lo % 60}
        laterHours == {h \in cron.hours : h > lo \div 60}
    IN  IF (lo \div 60) \in cron.hours /\ sameHour # {}
        THEN (lo \div 60) * 60 + MinOf(sameHour)
        ELSE IF laterHours # {} /\ cron.minutes # {}
        THEN MinOf(laterHours) * 60 + MinOf(cron.minutes)
        ELSE 0 - 1

\* croniter's search: the first matching whole minute at or after minute m,
\* found in the rest of the day of m or in one of the seven days after it.
CronSearch(cron, m) ==
    LET day0 == m \div 1440
        From(k) == IF k = 0 THEN m % 1440 ELSE 0
        found == {(day0 + k) * 1440 + FirstInDay(cron, From(k)) :
                    k \in {j \in 0..7 : /\ DowOf((day0 + j) * 86400) \in cron.dows
                                        /\ FirstInDay(cron, From(j)) >= 0}}
    IN  MinOf(found) * 60

\* croniter(schedule, start).get_next(datetime): the first fire time
\* strictly after start.
CronGetNext(cron, start) == CronSearch(cron, (start \div 60) + 1)

\* SchedulerService._next_sync_time
NextSyncTime(cron, t) ==
    IF cron.valid THEN CronGetNext(cron, t) ELSE t + HourSeconds

\* An interval check that is due only strictly after the interval.
ShouldSyncInterval_Strict(hours, last, t) ==
    IF hours <= 0 THEN FALSE
    ELSE IF last = None THEN TRUE
    ELSE t - last[1] > hours * HourSeconds

\* A cron check without the look-back of one window.
ShouldSyncCron_NoLookback(cron, t) ==
    IF ~cron.valid THEN FALSE
    ELSE CronGetNext(cron, t) <= t

\* SchedulerService._should_sync_interval
ShouldSyncInterval(hours, last, t) ==
    IF hours <= 0 THEN FALSE
    ELSE IF last = None THEN TRUE
    ELSE t - last[1] >= hours * HourSeconds

\* SchedulerService._should_sync_cron
ShouldSyncCron(cron, t) ==
    IF ~cron.valid THEN FALSE
    ELSE CronGetNext(cron, t - CronWindowSeconds) <= t

(***************************************************************************)
(* Scheduler configurations (config.get_scheduler_config).                 *)
(***************************************************************************)
SchedCfg(s, d, h, delay) ==
    [sync_schedule |-> s, diagnostic_schedule |-> d,
     sync_interval_hours |-> h, startup_delay |-> delay]

\* The defaults of config.get_scheduler_config.
DefaultSchedCfg == SchedCfg(CronDaily6, CronSunday7, 0, 30)

SchedConfigs ==
    { SchedCfg(CronEvery2, CronEvery3, 0, 2),
      SchedCfg(CronDaily6, CronSunday7, 1, 0),
      SchedCfg(InvalidCron, CronSunday7, 0, 2),
      SchedCfg(CronEvery2, CronEvery3, 1, 0) }

StartTimes == {120, 165}

CronMode(sc) == sc.sync_interval_hours <= 0 /\ sc.sync_schedule.valid

\* How long the run of a configuration is explored: the configurations
\* whose crons fire every few minutes for the short horizon.
Horizon(sc) ==
    IF CronMode(sc) \/ sc.diagnostic_schedule = CronEvery3 THEN ShortHorizon
    ELSE LongHorizon

Outcomes == {"ok", "fail", "raise"}
OpDurations == {0, MaxOpSeconds}

(***************************************************************************)
(* SchedulerService.__init__                                               *)
(***************************************************************************)
SchedStart(sc, t) ==
    /\ schedCfg = sc
    /\ pc = "start"
    /\ now = t
    /\ running = TRUE
    /\ last_sync = None
    /\ sync_needed = FALSE
    /\ diagnostic_needed = FALSE
    /\ loop_count = 0
    /\ end_time = 0
    /\ tickOps = <<>>
    /\ tickTime = None
    /\ prevTick = None
    /\ sigAt = None
    /\ opsAfterSig = 0
    /\ lastOutcome = "none"
    /\ lastSyncEnd = None
    /\ pollSyncs = 0
    /\ failures = 0
    /\ slowOps = 0
    /\ exit_code = None
    /\ initialSyncs = 0

SchedInit == \E sc \in SchedConfigs, t \in StartTimes : SchedStart(sc, t)

\* SchedulerService._signal_handler: SIGTERM or SIGINT at any moment.
SignalHandler ==
    /\ running
    /\ pc \notin {"stopped", "exited"}
    /\ running' = FALSE
    /\ sigAt' = Some([time |-> now, pc |-> pc, loop |-> loop_count])
    /\ UNCHANGED <<schedCfg, pc, now, last_sync, sync_needed, diagnostic_needed,
                   loop_count, end_time, tickOps, tickTime, prevTick,
                   opsAfterSig, lastOutcome, lastSyncEnd, pollSyncs, failures,
                   slowOps, exit_code, initialSyncs, fn, bdayVars>>

\* run_daemon up to the startup delay (lines 113-129).
StartDaemon ==
    /\ pc = "start"
    /\ IF schedCfg.startup_delay > 0
          THEN /\ end_time' = now + schedCfg.startup_delay
               /\ pc' = "startup_wait"
          ELSE /\ end_time' = end_time
               /\ pc' = "startup_check"
    /\ UNCHANGED <<schedCfg, now, running, last_sync, sync_needed,
                   diagnostic_needed, loop_count, tickOps, tickTime, prevTick,
                   sigAt, opsAfterSig, lastOutcome, lastSyncEnd, pollSyncs,
                   failures, slowOps, exit_code, initialSyncs, fn, bdayVars>>

\* A startup delay that goes on to the initial sync without the check of
\* self.running.
AfterWait_SkipCheck(p) == IF p = "startup_wait" THEN "initial_sync" ELSE "loop_head"

\* Where a wait returns to.
AfterWait(p) == IF p = "startup_wait" THEN "startup_check" ELSE "loop_head"

\* A wait that does not look at self.running.
WaitContinues_NoFlag(t, e, r) == t < e

\* A wait that returns half a tick early.
WaitContinues_HalfTick(t, e, r) == t + 30 < e /\ r

\* The loop condition of _wait_with_interrupt_check.
WaitContinues(t, e, r) == t < e /\ r

\* One iteration of _wait_with_interrupt_check: a sleep slice, or the exit.
WaitSlice ==
    /\ pc \in {"startup_wait", "tick_wait"}
    /\ now < Horizon(schedCfg)
    /\ IF WaitContinues(now, end_time, running)
          THEN /\ now' = now + Min2(SliceSeconds, end_time - now)
               /\ pc' = pc
          ELSE /\ now' = now
               /\ pc' = AfterWait(pc)
    /\ UNCHANGED <<schedCfg, running, last_sync, sync_needed, diagnostic_needed,
                   loop_count, end_time, tickOps, tickTime, prevTick, sigAt,
                   opsAfterSig, lastOutcome, lastSyncEnd, pollSyncs, failures,
                   slowOps, exit_code, initialSyncs, fn, bdayVars>>

\* run_daemon lines 131-133: shutdown requested during the startup delay.
StartupCheck ==
    /\ pc = "startup_check"
    /\ pc' = IF ~running THEN "stopped" ELSE "initial_sync"
    /\ UNCHANGED <<schedCfg, now, running, last_sync, sync_needed,
                   diagnostic_needed, loop_count, end_time, tickOps, tickTime,
                   prevTick, sigAt, opsAfterSig, lastOutcome, lastSyncEnd,
                   pollSyncs, failures, slowOps, exit_code, initialSyncs, fn, bdayVars>>

\* A _perform_sync that lets the exception of a pass escape run_daemon.
AfterPerform_Propagate(p, outcome) ==
    IF p = "start" THEN "exited"
    ELSE IF outcome = "raise" THEN "stopped"
    ELSE IF p = "initial_sync" THEN "loop_head" ELSE "after_op"

\* Where the caller continues after _perform_sync returned or caught:
\* run_once returns, run_daemon enters or goes on with its loop.
AfterPerform(p, outcome) ==
    IF p = "start" THEN "exited"
    ELSE IF p = "initial_sync" THEN "loop_head" ELSE "after_op"

\* A scheduler that records the time of every sync pass, successful or not.
LastSyncAfter_AnyOutcome(last, diagnostic, outcome, t) ==
    IF ~diagnostic THEN Some(t) ELSE last

\* self.last_sync after _perform_sync(diagnostic) whose pass ended at t.
LastSyncAfter(last, diagnostic, outcome, t) ==
    IF ~diagnostic /\ outcome = "ok" THEN Some(t) ELSE last

\* SchedulerService._perform_sync: the pass returns True ("ok"), returns
\* False ("fail") or raises ("raise"), after d seconds.
PerformSync(diagnostic) ==
    \E outcome \in Outcomes, d \in OpDurations :
        /\ outcome # "ok" => failures < MaxFailures
        /\ d > 0 => slowOps < MaxSlowOps
        /\ now' = now + d
        /\ last_sync' = LastSyncAfter(last_sync, diagnostic, outcome, now + d)
        /\ lastOutcome' = outcome
        /\ lastSyncEnd' = IF diagnostic THEN lastSyncEnd ELSE Some(now + d)
        /\ pollSyncs' = IF ~diagnostic /\ pc = "op_sync" THEN pollSyncs + 1 ELSE pollSyncs
        /\ tickOps' = IF pc \in {"initial_sync", "start"} THEN tickOps
                      ELSE Append(tickOps, IF diagnostic THEN "diagnostic" ELSE "sync")
        /\ initialSyncs' = IF pc = "initial_sync" THEN initialSyncs + 1 ELSE initialSyncs
        /\ opsAfterSig' = IF sigAt # None THEN opsAfterSig + 1 ELSE opsAfterSig
        /\ failures' = IF outcome # "ok" THEN failures + 1 ELSE failures
        /\ slowOps' = IF d > 0 THEN slowOps + 1 ELSE slowOps
        /\ pc' = AfterPerform(pc, outcome)
        /\ UNCHANGED <<schedCfg, running, sync_needed, diagnostic_needed,
                       loop_count, end_time, tickTime, prevTick, sigAt, fn,
                       bdayVars>>

\* run_daemon lines 135-137: the initial sync.
InitialSync ==
    /\ pc = "initial_sync"
    /\ PerformSync(FALSE)
    /\ exit_code' = exit_code

\* run_daemon line 141, loop exit (line 175).
LoopExit ==
    /\ pc = "loop_head"
    /\ ~running
    /\ pc' = "stopped"
    /\ UNCHANGED <<schedCfg, now, running, last_sync, sync_needed,
                   diagnostic_needed, loop_count, end_time, tickOps, tickTime,
                   prevTick, sigAt, opsAfterSig, lastOutcome, lastSyncEnd,
                   pollSyncs, failures, slowOps, exit_code, initialSyncs, fn, bdayVars>>

\* A due-check that lets the sync cron expression trigger in interval mode too.
SyncNeeded_CronToo(sc, last, t) ==
    \/ ShouldSyncCron(sc.sync_schedule, t)
    \/ ShouldSyncInterval(sc.sync_interval_hours, last, t)

\* run_daemon lines 149-152: which due-check decides the sync.
SyncNeeded(sc, last, t) ==
    IF sc.sync_interval_hours > 0
    THEN ShouldSyncInterval(sc.sync_interval_hours, last, t)
    ELSE ShouldSyncCron(sc.sync_schedule, t)

\* A dispatch that prefers the sync pass to the diagnostic.
Dispatch_SyncFirst(diag, sync) ==
    IF sync THEN "op_sync" ELSE IF diag THEN "op_diag" ELSE "after_op"

\* run_daemon lines 156-159: the operation a tick dispatches first.
Dispatch(diag, sync) ==
    IF diag THEN "op_diag" ELSE IF sync THEN "op_sync" ELSE "after_op"

\* run_daemon lines 141-159: one tick's due-checks and dispatch.
Tick ==
    /\ pc = "loop_head"
    /\ running
    /\ now < Horizon(schedCfg)
    /\ loop_count' = loop_count + 1
    /\ sync_needed' = SyncNeeded(schedCfg, last_sync, now)
    /\ diagnostic_needed' = ShouldSyncCron(schedCfg.diagnostic_schedule, now)
    /\ pc' = Dispatch(diagnostic_needed', sync_needed')
    /\ tickOps' = <<>>
    /\ prevTick' = tickTime
    /\ tickTime' = Some(now)
    /\ UNCHANGED <<schedCfg, now, running, last_sync, end_time, sigAt,
                   opsAfterSig, lastOutcome, lastSyncEnd, pollSyncs, failures,
                   slowOps, exit_code, initialSyncs, fn, bdayVars>>

\* run_daemon line 157: self._perform_sync(diagnostic=True)
TickDiagnostic ==
    /\ pc = "op_diag"
    /\ PerformSync(TRUE)
    /\ exit_code' = exit_code

\* run_daemon line 159: self._perform_sync()
TickSync ==
    /\ pc = "op_sync"
    /\ PerformSync(FALSE)
    /\ exit_code' = exit_code

\* An exit status that ignores the result of the pass.
ExitCode_AlwaysZero(success) == 0

\* 0 if success else 1 (run_once line 181, main lines 198 and 210).
ExitCode(success) == IF success THEN 0 ELSE 1

\* SchedulerService.run_once: one _perform_sync, its result as the status.
RunOnce ==
    /\ pc = "start"
    /\ PerformSync(FALSE)
    /\ exit_code' = Some(ExitCode(lastOutcome' = "ok"))

\* main() in one-shot mode (lines 195-198, 207-210): main_sync is called
\* directly and its result is given to sys.exit; an exception that leaves
\* main_sync ends the interpreter with status 1.
MainOnce ==
    /\ pc = "start"
    /\ \E outcome \in Outcomes, d \in OpDurations :
        /\ outcome # "ok" => failures < MaxFailures
        /\ d > 0 => slowOps < MaxSlowOps
        /\ now' = now + d
        /\ lastOutcome' = outcome
        /\ lastSyncEnd' = Some(now + d)
        /\ opsAfterSig' = IF sigAt # None THEN opsAfterSig + 1 ELSE opsAfterSig
        /\ failures' = IF outcome # "ok" THEN failures + 1 ELSE failures
        /\ slowOps' = IF d > 0 THEN slowOps + 1 ELSE slowOps
        /\ exit_code' = Some(IF outcome = "raise" THEN 1 ELSE ExitCode(outcome = "ok"))
    /\ pc' = "exited"
    /\ UNCHANGED <<schedCfg, running, last_sync, sync_needed, diagnostic_needed,
                   loop_count, end_time, tickOps, tickTime, prevTick, sigAt,
                   pollSyncs, initialSyncs, fn, bdayVars>>

\* run_daemon lines 161-169: the heartbeat log, then the tick wait begins.
BeginTickWait ==
    /\ pc = "after_op"
    /\ end_time' = now + TickSeconds
    /\ pc' = "tick_wait"
    /\ UNCHANGED <<schedCfg, now, running, last_sync, sync_needed,
                   diagnostic_needed, loop_count, tickOps, tickTime, prevTick,
                   sigAt, opsAfterSig, lastOutcome, lastSyncEnd, pollSyncs,
                   failures, slowOps, exit_code, initialSyncs, fn, bdayVars>>

SchedNext ==
    \/ SignalHandler
    \/ StartDaemon
    \/ WaitSlice
    \/ StartupCheck
    \/ InitialSync
    \/ LoopExit
    \/ Tick
    \/ TickDiagnostic
    \/ TickSync
    \/ BeginTickWait
    \/ RunOnce
    \/ MainOnce

FnIdle == [op |-> "none"]

\* The daemon at the call of run_daemon; the reconciler is not run.
DaemonInit == SchedInit /\ fn = FnIdle /\ BdayIdle

SpecSched == DaemonInit /\ [][SchedNext]_vars

(***************************************************************************)
(* SpecFn: the pure functions of the program applied to drawn inputs.      *)
(***************************************************************************)
\* Monday 06:00:00 and Sunday 07:00:00 of the first week.
Monday0600 == 6 * HourSeconds
Sunday0700 == 6 * 86400 + 7 * HourSeconds

\* Instants at which the cron due-check is evaluated.
CronCheckTimes ==
    (60..200) \cup ((Monday0600 - 125)..(Monday0600 + 65))
              \cup ((Sunday0700 - 65)..(Sunday0700 + 65))

CronSamples ==
    {CronDaily6, CronSunday7, CronEvery2, CronEvery3, CronEveryMinute, InvalidCron}

\* Instant at which the interval due-check is evaluated, and the ages of
\* the last successful sync tried: around every whole hour.
IntervalCheckTime == (MaxIntervalHours + 2) * HourSeconds
IntervalAges ==
    {h * HourSeconds + k : h \in 0..(MaxIntervalHours + 1), k \in {0 - 1, 0, 1}}
        \cap (0..IntervalCheckTime)

EvalShouldSyncInterval ==
    /\ fn = FnIdle
    /\ \E hours \in 0..MaxIntervalHours,
       last \in {None} \cup {Some(IntervalCheckTime - a) : a \in IntervalAges} :
        fn' = [op |-> "should_sync_interval", hours |-> hours, last |-> last,
               t |-> IntervalCheckTime,
               result |-> ShouldSyncInterval(hours, last, IntervalCheckTime)]
    /\ UNCHANGED <<schedVars, bdayVars>>

EvalShouldSyncCron ==
    /\ fn = FnIdle
    /\ \E cron \in CronSamples, t \in CronCheckTimes :
        fn' = [op |-> "should_sync_cron", cron |-> cron, t |-> t,
               result |-> ShouldSyncCron(cron, t)]
    /\ UNCHANGED <<schedVars, bdayVars>>

\* The contacts the reconciler is applied to: parsed from their vCards.
\* FN:Bob / BDAY:--06-15 (no year)
BobCard == VCard(TRUE, TRUE, TRUE, Some(<<"B", "o", "b">>), None, Some(<<"-", "-", "0", "6", "-", "1", "5">>))
\* FN:Ada Lovelace / BDAY:18151210
AdaCard == VCard(TRUE, TRUE, TRUE, Some(<<"A", "d", "a", " ", "L", "o", "v", "e", "l", "a", "c", "e">>), None, Some(<<"1", "8", "1", "5", "1", "2", "1", "0">>))

FnContacts == {ParseVcard(card)[1] : card \in {BobCard, AdaCard}}

FnYears == {2025, 2026}

\* BIRTHDAY_REMINDER_DAYS values, as _load_config parses them.
ReminderLists == { <<>>, <<1>>, <<7>>, <<1, 7>>, <<7, 1>>, <<0, 1, 7>>, <<7, 0, 1>> }

\* The default configuration with the reminder days replaced.
WithReminders(days) == [DefaultBdayCfg EXCEPT !.reminder_days = days]

FnConfigs == {WithReminders(days) : days \in ReminderLists}


\* BIRTHDAY_REMINDER_MESSAGE values.
ReminderTemplates ==
    { DefaultBdayCfg.reminder_template,
      <<"{", "n", "a", "m", "e", "}", ":", " ", "i", "n", " ", "{", "d", "a", "y", "s", "}", " ", "d", "a", "y", "s">>,
      <<"{", "d", "a", "y", "s", "}", " ", "d", "a", "y", "s", " ", "u", "n", "t", "i", "l", " ", "{", "n", "a", "m", "e", "}", "'", "s", " ", "b", "i", "r", "t", "h", "d", "a", "y">>,
      <<"O", "n", "l", "y", " ", "{", "d", "a", "y", "s", "}", " ", "d", "a", "y", " ", "l", "e", "f", "t", " ", "f", "o", "r", " ", "{", "n", "a", "m", "e", "}">>,
      <<"{", "n", "a", "m", "e", "}", " ", "h", "a", "s", " ", "a", " ", "b", "i", "r", "t", "h", "d", "a", "y", " ", "s", "o", "o", "n">>,
      <<"{", "n", "a", "m", "e", "}", " ", "i", "n", " ", "{", "d", "a", "y", "s", "}", " ", "d", "a", "y", "s", "s">>,
      <<"{", "w", "h", "o", "}", " ", "i", "s", " ", "i", "n", " ", "{", "d", "a", "y", "s", "}", " ", "d", "a", "y", "s">>,
      <<"{", "n", "a", "m", "e", "}", " ", "{", "d", "a", "y", "s">>,
      <<"{", "}", " ", "i", "n", " ", "{", "d", "a", "y", "s", "}", " ", "d", "a", "y", "s">> }

ReminderNames == { <<"B", "o", "b">>, <<"A", "d", "a", " ", "L", "o", "v", "e", "l", "a", "c", "e">> }

\* An empty calendar with the one day a call looks at.
EmptyDay(contact, year) ==
    [d \in {<<year, contact.birthday[1], contact.birthday[2]>>} |-> <<>>]

\* The events of the one day of a calendar built by EmptyDay.
DayEvents(cal, contact, year) ==
    cal[<<year, contact.birthday[1], contact.birthday[2]>>]

\* _format_reminder_message(name, days_before) under a reminder template.
EvalFormatReminder ==
    /\ fn = FnIdle
    /\ \E tpl \in ReminderTemplates, name \in ReminderNames, days_before \in 0..2 :
        fn' = [op |-> "format_reminder", template |-> tpl, name |-> name,
               days_before |-> days_before,
               result |-> FormatReminderMessage(tpl, name, days_before)]
    /\ UNCHANGED <<schedVars, bdayVars>>

\* create_birthday_event(contact, year) against an empty calendar.
EvalCreate ==
    /\ fn = FnIdle
    /\ \E c \in FnConfigs, contact \in FnContacts, year \in FnYears :
        LET o == CreateBirthdayEvent(c, EmptyDay(contact, year), contact, year,
                                     TRUE, TRUE, 1)
        IN  fn' = [op |-> "create", config |-> c, contact |-> contact,
                   year |-> year, ret |-> o.ret, kind |-> o.kind,
                   events |-> DayEvents(o.cal, contact, year)]
    /\ UNCHANGED <<schedVars, bdayVars>>

\* create_birthday_event(contact, year) twice: against an empty calendar
\* under reminder days first_days, then, restarted with second_days,
\* against the calendar the first call left.
EvalReconcileAgain ==
    /\ fn = FnIdle
    /\ \E first_days \in ReminderLists, second_days \in ReminderLists,
          contact \in FnContacts, year \in FnYears :
        LET first == CreateBirthdayEvent(WithReminders(first_days),
                                         EmptyDay(contact, year), contact, year,
                                         TRUE, TRUE, 1)
            second == CreateBirthdayEvent(WithReminders(second_days), first.cal,
                                          contact, year, TRUE, TRUE, 1)
        IN  fn' = [op |-> "reconcile_again", first_days |-> first_days,
                   second_days |-> second_days, contact |-> contact, year |-> year,
                   first_kind |-> first.kind,
                   existing |-> DayEvents(first.cal, contact, year),
                   ret |-> second.ret, kind |-> second.kind, saves |-> second.saves,
                   events |-> DayEvents(second.cal, contact, year)]
    /\ UNCHANGED <<schedVars, bdayVars>>

\* UPDATE_EXISTING_EVENTS=false
NoUpdateCfg == [DefaultBdayCfg EXCEPT !.update_existing = FALSE]

\* BIRTHDAY_EVENT_DESCRIPTION="Buy a gift for {name}", BIRTHDAY_EVENT_CATEGORY="Family"
GiftCfg ==
    [DefaultBdayCfg EXCEPT !.event_description_template = <<"B", "u", "y", " ", "a", " ", "g", "i", "f", "t", " ", "f", "o", "r", " ", "{", "n", "a", "m", "e", "}">>,
                           !.event_category = <<"F", "a", "m", "i", "l", "y">>]

\* BIRTHDAY_REMINDER_MESSAGE="{} in {days} days": a positional field
PositionalCfg == [DefaultBdayCfg EXCEPT !.reminder_template = <<"{", "}", " ", "i", "n", " ", "{", "d", "a", "y", "s", "}", " ", "d", "a", "y", "s">>]

\* BIRTHDAY_REMINDER_MESSAGE="{who} is in {days} days": an unknown field
UnknownFieldCfg == [DefaultBdayCfg EXCEPT !.reminder_template = <<"{", "w", "h", "o", "}", " ", "i", "s", " ", "i", "n", " ", "{", "d", "a", "y", "s", "}", " ", "d", "a", "y", "s">>]

\* The configurations the existing events were created under.
FirstConfigs == {DefaultBdayCfg, PartyBdayCfg, WithReminders(<<7, 1>>), GiftCfg}

\* The configurations create_birthday_event is called under.
ReconcileConfigs ==
    FirstConfigs \cup {NoUpdateCfg, [PartyBdayCfg EXCEPT !.update_existing = FALSE],
                       WithReminders(<<1, 7>>), PositionalCfg, UnknownFieldCfg}

Bob == ParseVcard(BobCard)[1]

\* The contacts create_birthday_event is called for, and the owners of the
\* events it may find; all born on 15 June.
ReconcileContacts == {Ann, Bob}
EventOwners == {Ann, Bob, MaryAnn}

\* What the target day may hold before the call: nothing, or the event
\* create_birthday_event made for an owner under a first configuration.
ExistingDays(contact, year) ==
    {EmptyDay(contact, year)} \cup
    { CreateBirthdayEvent(c0, EmptyDay(contact, year), k, year, TRUE, TRUE, 1).cal :
        c0 \in FirstConfigs, k \in EventOwners }

\* create_birthday_event(contact, year) against a day that may hold an
\* event, with the save accepted or refused.
EvalReconcileExisting ==
    /\ fn = FnIdle
    /\ \E c \in ReconcileConfigs, contact \in ReconcileContacts, year \in FnYears,
          saveOk \in BOOLEAN :
        \E day \in ExistingDays(contact, year) :
          LET o == CreateBirthdayEvent(c, day, contact, year, TRUE, saveOk, 1)
              existing == DayEvents(day, contact, year)
          IN  fn' = [op |-> "reconcile_existing", config |-> c, contact |-> contact,
                     year |-> year, saveOk |-> saveOk, existing |-> existing,
                     found |-> FindExistingEvent(existing, contact, c),
                     ret |-> o.ret, kind |-> o.kind, lookups |-> o.lookups,
                     saves |-> o.saves, events |-> DayEvents(o.cal, contact, year)]
    /\ UNCHANGED <<schedVars, bdayVars>>

\* An event as the calendar search returns it, with or without a SUMMARY.
SampleEvent(summary, uid) ==
    [ uid |-> uid,
      date |-> <<2025, 6, 15>>,
      summary |-> summary,
      description |-> None,
      categories |-> <<>>,
      rrule |-> <<>>,
      alarms |-> <<>> ]

SampleSummaries ==
    { None,
      Some(<<"@", " ", "A", "n", "n", "'", "s", " ", "B", "i", "r", "t", "h", "d", "a", "y">>),
      Some(<<"P", "a", "r", "t", "y", ":", " ", "A", "n", "n">>),
      Some(<<"A", "N", "N", "'", "S", " ", "B", "I", "R", "T", "H", "D", "A", "Y">>),
      Some(<<"A", "n", "n", " ", "f", "a", "m", "i", "l", "y", " ", "d", "i", "n", "n", "e", "r">>),
      Some(<<"M", "a", "r", "y", " ", "A", "n", "n", "'", "s", " ", "B", "i", "r", "t", "h", "d", "a", "y">>),
      Some(<<"D", "e", "n", "t", "i", "s", "t">>) }

SampleUids ==
    { <<"b", "i", "r", "t", "h", "d", "a", "y", "-", "a", "n", "n", "-", "2", "0", "2", "5", "0", "6", "1", "5">>,
      <<"b", "i", "r", "t", "h", "d", "a", "y", "-", "a", "n", "n", "-", "l", "e", "e", "-", "2", "0", "2", "5", "0", "6", "1", "5">>,
      <<"b", "i", "r", "t", "h", "d", "a", "y", "-", "m", "a", "r", "y", "-", "a", "n", "n", "-", "2", "0", "2", "5", "0", "6", "1", "5">>,
      <<"B", "i", "r", "t", "h", "d", "a", "y", "-", "A", "n", "n", "-", "2", "0", "2", "5", "0", "6", "1", "5">>,
      <<"c", "0", "f", "f", "e", "e", "-", "4", "2">> }

\* _find_existing_event(name, date) when the search returns one event.
EvalFindExisting ==
    /\ fn = FnIdle
    /\ \E c \in {DefaultBdayCfg, GiftCfg}, contact \in ReconcileContacts,
          summary \in SampleSummaries, uid \in SampleUids :
        fn' = [op |-> "find_existing", config |-> c, contact |-> contact,
               event |-> SampleEvent(summary, uid),
               found |-> FindExistingEvent(<<SampleEvent(summary, uid)>>, contact, c) # 0]
    /\ UNCHANGED <<schedVars, bdayVars>>

\* Spellings of contact names.
UidNames ==
    { <<"A", "d", "a", " ", "L", "o", "v", "e", "l", "a", "c", "e">>, <<"a", "d", "a", " ", "l", "o", "v", "e", "l", "a", "c", "e">>, <<"A", "D", "A", " ", "L", "O", "V", "E", "L", "A", "C", "E">>, <<"A", "d", "a", " ", " ", "L", "o", "v", "e", "l", "a", "c", "e">>,
      <<"A", "n", "n">>, <<"A", "N", "N">>, <<"M", "a", "r", "y", " ", "A", "n", "n">> }

\* The event UID (line 93) computed for two names and one birthday, twice
\* for the first.
EvalEventUid ==
    /\ fn = FnIdle
    /\ \E name \in UidNames, other \in UidNames, year \in FnYears :
        LET date == <<year, 12, 10>> IN
        fn' = [op |-> "event_uid", name |-> name, other |-> other, date |-> date,
               uid |-> EventUid(name, date),
               uid_again |-> EventUid(name, date),
               other_uid |-> EventUid(other, date)]
    /\ UNCHANGED <<schedVars, bdayVars>>

\* The contact lists of the passes evaluated as a whole.
PassLists ==
    { <<Ann, MaryAnn>>, <<MaryAnn, Ann>>, <<Ann, Bob>>, <<Zoe, Ann>>, <<Bob>> }

\* An empty calendar with the target days of a pass over contacts cs.
EmptyCalendar(cs, year) ==
    [d \in { <<y, cs[i].birthday[1], cs[i].birthday[2]>> :
                y \in {year, year + 1}, i \in 1..Len(cs) } |-> <<>>]

\* main_sync lines 114-121 from contact i, step st on, against a sink
\* that answers every request and lists a new resource first (newFirst) or
\* last: the calendar the loop leaves and the calls it made.
\* Each call's outcome and the rest of the loop are bound once, as values.
RECURSIVE MainSyncLoop(_, _, _, _, _, _, _)
MainSyncLoop(c, cal, cs, year, i, st, newFirst) ==
    IF i > Len(cs) THEN [cal |-> cal, calls |-> <<>>]
    ELSE LET y == year + (st - 1)
             date == <<y, cs[i].birthday[1], cs[i].birthday[2]>>
             pos == IF newFirst THEN 1 ELSE Len(cal[date]) + 1
         IN  CHOOSE r \in UNION
               { { [cal |-> rest.cal,
                    calls |-> <<[idx |-> i, year |-> y, ret |-> o.ret, kind |-> o.kind,
                                 lookups |-> o.lookups, saves |-> o.saves]>> \o rest.calls] :
                   rest \in {MainSyncLoop(c, o.cal, cs, year, AfterCall(i, st, o.ret)[1],
                                           AfterCall(i, st, o.ret)[2], newFirst)} } :
                 o \in {CreateBirthdayEvent(c, cal, cs[i], y, TRUE, TRUE, pos)} } : TRUE

\* created_count of main_sync: the calls that returned True.
CreatedCount(calls) == Cardinality({n \in 1..Len(calls) : calls[n].ret})

\* Two sync passes over the same contacts, the second right after the
\* first, starting from an empty calendar.
EvalTwoPasses ==
    /\ fn = FnIdle
    /\ \E c \in {DefaultBdayCfg, PartyBdayCfg}, cs \in PassLists, newFirst \in BOOLEAN :
        \E first \in {MainSyncLoop(c, EmptyCalendar(cs, current_year), cs,
                                   current_year, 1, 1, newFirst)} :
          \E second \in {MainSyncLoop(c, first.cal, cs, current_year, 1, 1, newFirst)} :
            fn' = [op |-> "two_passes", config |-> c, contacts |-> cs,
                   newFirst |-> newFirst,
                   first |-> first.calls, first_count |-> CreatedCount(first.calls),
                   second |-> second.calls, second_count |-> CreatedCount(second.calls),
                   calendar |-> second.cal]
    /\ UNCHANGED <<schedVars, bdayVars>>

\* The renderings of every configuration and contact the actions use.
FnRenderingTable ==
    RenderingsOf(FnConfigs \cup ReconcileConfigs,
                 FnContacts \cup ReconcileContacts \cup EventOwners \cup {Zoe})

FnNext ==
    \/ EvalShouldSyncInterval
    \/ EvalShouldSyncCron
    \/ EvalFormatReminder
    \/ EvalCreate
    \/ EvalReconcileAgain
    \/ EvalReconcileExisting
    \/ EvalFindExisting
    \/ EvalEventUid
    \/ EvalTwoPasses

FnInit == SchedStart(DefaultSchedCfg, 0) /\ fn = FnIdle /\ BdayStart(FnRenderingTable)

SpecFn == FnInit /\ [][FnNext]_vars

(***************************************************************************)
(* Spec: the reconciler and the sync pass against the remote calendar.     *)
(***************************************************************************)
Init == SchedStart(DefaultSchedCfg, 0) /\ fn = FnIdle /\ BdayInit

Next == BdayNext

Spec == Init /\ [][Next]_vars

(***************************************************************************)
(* Claims about the reconciler and the sync pass.                          *)
(***************************************************************************)
\* Two calls have the same contact and target year.
SameTarget(a, b) == a.contact = b.contact /\ a.year = b.year

\* C1: idempotence of reconcile.  When create_birthday_event(C, Y) is called
\* directly after a call for the same C and Y that created or updated an
\* event, with the configuration unchanged in between and no sink error in
\* either call, the second call is Skipped and leaves the calendar as it was.
C1_ReconcileIdempotent ==
    [][(/\ ReconcileCall
        /\ lastCall # None
        /\ lastCall[1].kind \in {"created", "updated"}
        /\ ~lastCall[1].sinkError
        /\ ~lastCall'[1].sinkError
        /\ SameTarget(lastCall[1], lastCall'[1]))
       => (lastCall'[1].kind = "skipped" /\ calendar' = calendar)]_vars

\* The events of day d that are the birthday event of contact k: the event
\* carries k's UID for that day, or the title rendered for k.
EventsFor(k, d) ==
    {i \in 1..Len(calendar[d]) :
        \/ calendar[d][i].uid = EventUid(k.name, d)
        \/ /\ Rendering(config, k).title.err = "none"
           /\ calendar[d][i].summary = Some(Rendering(config, k).title.text)}

\* C2: at most one event per contact and date.  Between calls, the calendar
\* holds at most one birthday event of every contact on the contact's
\* birthday in every target year.
C2_AtMostOneEventPerContact ==
    \A k \in ContactUniverse, y \in TargetYears :
        LET d == <<y, k.birthday[1], k.birthday[2]>> IN
        Cardinality(EventsFor(k, d)) <= 1

\* The calls a pass over contact list cs makes, in order: both years of
\* every contact, the current year first.
ExpectedPassCalls(cs) ==
    [n \in 1..(2 * Len(cs)) |->
        [idx |-> (n + 1) \div 2, year |-> current_year + ((n + 1) % 2)]]

\* The contact index and year of the calls the pass has made.
PassTargets == [n \in 1..Len(passCalls) |->
                    [idx |-> passCalls[n].idx, year |-> passCalls[n].year]]

\* C10: a per-contact failure never aborts the batch.  A pass that fetched
\* a non-empty contact list calls reconcile for both years of every contact
\* in order, whatever the calls before returned, and returns success.
C10_FailureNeverAbortsBatch ==
    /\ passPc = "loop" =>
        /\ Len(passCalls) = 2 * (idx - 1) + (step - 1)
        /\ PassTargets = SubSeq(ExpectedPassCalls(contacts), 1, Len(passCalls))
    /\ (passPc = "done" /\ contacts # <<>>) =>
        /\ PassTargets = ExpectedPassCalls(contacts)
        /\ passResult = Some(TRUE)

\* A finished pass in which a call for the first contact failed at the sink
\* and the calls for the later contact were made.
C10_Witness ==
    /\ passPc = "done"
    /\ passResult = Some(TRUE)
    /\ contacts = <<Ann, MaryAnn>>
    /\ sinkErrors > 0
    /\ \E n \in 1..Len(passCalls) :
        /\ passCalls[n].idx = 1
        /\ passCalls[n].kind = "failed"
    /\ \E n \in 1..Len(passCalls) : passCalls[n].idx = 2 /\ passCalls[n].ret

\* The vCard resources that do not parse: an unreadable birthday, a
\* malformed vCard.
BadCards == {UnparsableBdayCard, MalformedCard}

\* C11: a record that fails to parse is skipped and nothing else.  When the
\* second of three fetched records is a malformed vCard or has an unparsable
\* birthday, the pass works on exactly the contacts of records one and
\* three, in that order, as a pass over those two records alone does; it
\* reconciles both years of each and returns success.  Stated for the steps
\* that start and finish a pass.
C11_UnparsableRecordSkipped ==
    [][LET Skips(r) == r # None /\ Len(r[1]) = 3 /\ r[1][2] \in BadCards IN
       /\ (StartPass /\ Skips(records')) =>
              /\ passPc' = "loop"
              /\ Len(contacts') = 2
              /\ contacts' = GetContacts(<<records'[1][1], records'[1][3]>>)
       /\ (FinishPass /\ Skips(records)) =>
              /\ contacts = GetContacts(<<records[1][1], records[1][3]>>)
              /\ passResult' = Some(TRUE)
              /\ PassTargets = ExpectedPassCalls(contacts)]_vars

\* C11 witness: a finished pass over Ann's card, a card with an unreadable
\* birthday and Mary Ann's card created the four events of Ann and Mary Ann.
C11_Witness ==
    /\ passPc = "done"
    /\ records = Some(<<AnnCard, UnparsableBdayCard, MaryAnnCard>>)
    /\ contacts = <<Ann, MaryAnn>>
    /\ passResult = Some(TRUE)
    /\ created_count = 4
    /\ \A n \in 1..Len(passCalls) : passCalls[n].kind = "created"

\* What _perform_sync sees of a pass that returned result.
PassOutcome(result) == IF result = Some(TRUE) THEN "ok" ELSE "fail"

\* C12: an empty record source is a normal result.  A pass that connected
\* and fetched an address book yielding no contacts returns success, and
\* _perform_sync records its end as the time of the last successful sync.
C12_EmptySourceIsSuccess ==
    (passPc = "done" /\ records # None /\ contacts = <<>>) =>
        /\ passResult = Some(TRUE)
        /\ LastSyncAfter(None, FALSE, PassOutcome(passResult), now) = Some(now)

(***************************************************************************)
(* Claims about the scheduler.                                             *)
(***************************************************************************)
Waits == {"startup_wait", "tick_wait"}

\* The cron expressions the polling loop checks each tick.
PolledCrons(sc) ==
    {sc.diagnostic_schedule}
        \cup (IF sc.sync_interval_hours > 0 THEN {} ELSE {sc.sync_schedule})

\* C3: no cron boundary is missed by the polling loop: every fire time that
\* elapses between two consecutive tick evaluations lies in the window
\* (now - 60s, now] of the later one, so no fire time falls in the gap
\* between the earlier evaluation and the start of that window.
C3_NoCronBoundaryMissed ==
    (tickTime # None /\ prevTick # None) =>
        \A cron \in PolledCrons(schedCfg) :
            \A f \in (prevTick[1] + 1)..(tickTime[1] - CronWindowSeconds) :
                ~Fires(cron, f)

\* C4: the daemon loop is Stopped only after a shutdown signal cleared the
\* running flag; a pass that fails or raises never stops it.
C4_StopOnlyOnSignal ==
    pc = "stopped" => (~running /\ sigAt # None)

\* C4 witness: a pass raised, and the loop went on to a later tick that
\* found nothing due and is about to wait, still running.
C4_Witness ==
    /\ pc = "after_op" /\ running /\ sigAt = None
    /\ lastOutcome = "raise" /\ tickOps = <<>> /\ pollSyncs >= 1

\* C5 as stated: a signal during a wait ends the wait within one 1-second
\* slice, and in every case the loop stops within one tick (60 seconds) of
\* the signal.
C5_StopsWithinOneTick ==
    sigAt # None =>
        /\ (sigAt[1].pc \in Waits => now <= sigAt[1].time + SliceSeconds)
        /\ now <= sigAt[1].time + TickSeconds

\* C5 amended: a signal during a wait ends the wait within one 1-second
\* slice and no pass runs afterwards; in every case no further tick begins
\* after the signal, at most the one pass already dispatched completes, and
\* no time is spent waiting once it has returned.
C5_StopsAfterCurrentPass ==
    sigAt # None =>
        /\ (sigAt[1].pc \in Waits =>
                now <= sigAt[1].time + SliceSeconds /\ opsAfterSig = 0)
        /\ loop_count = sigAt[1].loop
        /\ opsAfterSig <= 1
        /\ now <= sigAt[1].time + SliceSeconds + opsAfterSig * MaxOpSeconds

\* C5 witness: the signal arrived early in a tick wait and run_daemon has
\* returned with most of the tick still ahead.
C5_Witness ==
    /\ pc = "stopped" /\ sigAt # None
    /\ sigAt[1].pc = "tick_wait"
    /\ end_time - now > TickSeconds - 10

\* The operations a tick must have executed, given its two due-checks.
ExpectedTickOps(diag, sync) ==
    IF diag THEN <<"diagnostic">> ELSE IF sync THEN <<"sync">> ELSE <<>>

\* C6: every polling tick executes zero or one operation: the diagnostic
\* if it is due (and then no sync), else the sync if it is due, else none.
C6_ZeroOrOneOperation ==
    /\ Len(tickOps) <= 1
    /\ pc \in {"after_op", "tick_wait", "loop_head", "stopped"} =>
           tickOps = ExpectedTickOps(diagnostic_needed, sync_needed)

\* C6 witness: both were due in one tick and only the diagnostic ran.
C6_Witness ==
    /\ pc = "after_op" /\ diagnostic_needed /\ sync_needed
    /\ tickOps = <<"diagnostic">>

\* C7: with intervalHours = H > 0 the interval due-check is true when no
\* successful sync is recorded, true when the last one is at least H hours
\* old and false when it is younger; H = 4 is not due at 3h and due at 4h.
C7_IntervalDueCheck ==
    (fn.op = "should_sync_interval" /\ fn.hours > 0) =>
        /\ fn.last = None => fn.result = TRUE
        /\ fn.last # None =>
               (fn.result <=> fn.t - fn.last[1] >= fn.hours * HourSeconds)
        /\ (fn.hours = 4 /\ fn.last = Some(fn.t - 3 * HourSeconds)) => ~fn.result
        /\ (fn.hours = 4 /\ fn.last = Some(fn.t - 4 * HourSeconds)) => fn.result

\* C7 witness: four hours configured, the last sync one second short of it.
C7_Witness ==
    /\ fn.op = "should_sync_interval" /\ fn.hours = 4
    /\ fn.last = Some(fn.t - (4 * HourSeconds - 1)) /\ ~fn.result

\* C8: for a valid cron expression the cron due-check at time now is true
\* exactly when the expression has a fire time F with now - 60s < F <= now;
\* "0 6 * * *" is due at 06:00:01 and not due at 05:58:00.
C8_CronDueCheck ==
    (fn.op = "should_sync_cron" /\ fn.cron.valid) =>
        /\ fn.result <=>
               \E f \in (fn.t - CronWindowSeconds + 1)..fn.t : Fires(fn.cron, f)
        /\ (fn.cron = CronDaily6 /\ fn.t = Monday0600 + 1) => fn.result
        /\ (fn.cron = CronDaily6 /\ fn.t = Monday0600 - 120) => ~fn.result

\* C8 witness: "0 6 * * *" checked at 06:00:01 is due.
C8_Witness ==
    /\ fn.op = "should_sync_cron" /\ fn.cron = CronDaily6
    /\ fn.t = Monday0600 + 1 /\ fn.result

\* C9: with an invalid sync cron expression and interval mode disabled the
\* polling loop keeps executing sync passes at the one-hour fallback
\* cadence: no tick finishes its dispatch with the latest sync pass more
\* than one hour and one tick in the past.
C9_InvalidCronFallbackCadence ==
    (/\ ~schedCfg.sync_schedule.valid
     /\ schedCfg.sync_interval_hours <= 0
     /\ pc = "after_op"
     /\ lastSyncEnd # None) =>
        now < lastSyncEnd[1] + HourSeconds + TickSeconds

\* The calls of the pass that ended as kind.
CallsOfKind(kinds) == {n \in 1..Len(passCalls) : passCalls[n].kind \in kinds}

\* C20: a full pass calls reconcile twice per contact, for currentYear and
\* then currentYear + 1, in source order, and counts the Created and Updated
\* outcomes; when the pass returns after no sink error, every contact of
\* the pass whose birthday is a valid date of the year has a birthday event
\* on that day, in currentYear and in currentYear + 1.
C20_FullPassPopulatesBothYears ==
    [][(FinishPass /\ \A n \in 1..Len(passCalls) : ~passCalls[n].sinkError) =>
          /\ PassTargets = ExpectedPassCalls(contacts)
          /\ created_count = Cardinality(CallsOfKind({"created", "updated"}))
          /\ \A i \in 1..Len(contacts), y \in {current_year, current_year + 1} :
                LET k == contacts[i] IN
                ValidDate(y, k.birthday[1], k.birthday[2]) =>
                    EventsFor(k, <<y, k.birthday[1], k.birthday[2]>>) # {}]_vars

\* C17: a sync pass that failed on a connection or setup error (main_sync
\* returned False) is retried on the next polling tick, in cron mode and in
\* interval mode.  When the operation before a tick was a sync pass (the
\* initial one, or the one the tick before dispatched) that failed, the tick
\* finds the sync due again.
C17_FailedSyncRetriedNextTick ==
    [][(/\ Tick
        /\ CronMode(schedCfg) \/ schedCfg.sync_interval_hours > 0
        /\ lastOutcome = "fail"
        /\ (loop_count = 0 \/ tickOps = <<"sync">>))
       => sync_needed']_vars

\* C18: one-shot mode ends with status 0 exactly when the sync pass
\* reported success, and with status 1 when it reported failure or raised;
\* no status is produced before the pass is over.
C18_OneShotExitCode ==
    /\ pc = "exited" =>
          /\ exit_code \in {Some(0), Some(1)}
          /\ exit_code = Some(0) <=> lastOutcome = "ok"
          /\ lastOutcome \in {"fail", "raise"} => exit_code = Some(1)
    /\ pc # "exited" => exit_code = None

\* C18 witness: the one pass raised and the status is 1.
C18_Witness ==
    /\ pc = "exited"
    /\ lastOutcome = "raise"
    /\ exit_code = Some(1)
    /\ lastSyncEnd # None

\* Positions of run_daemon before the initial sync has run.
Starting == {"start", "startup_wait", "startup_check", "initial_sync"}

\* Positions of run_daemon in its polling loop.
Polling == {"loop_head", "op_diag", "op_sync", "after_op", "tick_wait"}

\* C19: Starting -> startup delay -> InitialSyncRunning -> Polling ->
\* Stopped.  No pass runs before the initial sync, which starts only once
\* the startup delay has elapsed; exactly one initial sync has run when the
\* polling loop is entered and ever after; a shutdown signalled before or
\* during the startup delay leads to Stopped with no pass executed.
C19_StartupSequence ==
    /\ pc \in Starting =>
          /\ initialSyncs = 0 /\ loop_count = 0
          /\ lastOutcome = "none" /\ lastSyncEnd = None
    /\ (pc = "initial_sync" /\ schedCfg.startup_delay > 0) =>
          (now >= end_time /\ end_time >= schedCfg.startup_delay)
    /\ pc \in Polling => initialSyncs = 1
    /\ loop_count >= 1 => initialSyncs = 1
    /\ pc = "stopped" => initialSyncs <= 1
    /\ (/\ sigAt # None
        /\ sigAt[1].pc \in {"start", "startup_wait", "startup_check"}
        /\ pc # "exited") =>
          /\ pc \in {"start", "startup_wait", "startup_check", "stopped"}
          /\ initialSyncs = 0 /\ loop_count = 0 /\ opsAfterSig = 0
          /\ lastOutcome = "none"

\* C19 witness: the signal arrived during the startup delay and run_daemon
\* returned before the delay was over, without a pass.
C19_Witness ==
    /\ pc = "stopped"
    /\ sigAt # None
    /\ sigAt[1].pc = "startup_wait"
    /\ now < end_time
    /\ initialSyncs = 0
    /\ lastOutcome = "none"

\* C27: last_sync changes only when a sync pass returns success, and is
\* then the time the pass completed.  A sync pass that fails or raises, a
\* diagnostic pass with any outcome, a tick that runs nothing, a wait and a
\* signal leave it as it was.
C27_LastSyncOnlyOnSuccess ==
    [][LET syncPass == InitialSync \/ TickSync \/ RunOnce IN
       /\ (syncPass /\ lastOutcome' = "ok") => last_sync' = Some(now')
       /\ ~(syncPass /\ lastOutcome' = "ok") => last_sync' = last_sync]_vars

\* C27 witness: a sync pass ended after the last successful one and left
\* last_sync at the earlier time.
C27_Witness ==
    /\ last_sync # None
    /\ lastSyncEnd # None
    /\ lastSyncEnd[1] > last_sync[1]
    /\ lastOutcome \in {"fail", "raise"}

\* C30: the sync is not lost to the diagnostic's priority.  When a tick
\* found both due and ran the diagnostic only, the next tick finds the sync
\* due, in cron mode and in interval mode.  (In cron mode a fire time that
\* has left the look-back window of one tick is in no later window.)
C30_SyncNotLostToDiagnostic ==
    [][(/\ Tick
        /\ CronMode(schedCfg) \/ schedCfg.sync_interval_hours > 0
        /\ sync_needed /\ diagnostic_needed
        /\ tickOps = <<"diagnostic">>)
       => sync_needed']_vars

\* The fire time a due-check at time t looks at: the first one after the
\* start of its window (scheduler.py lines 60-62).
SeenFireTime(cron, t) == CronGetNext(cron, t - CronWindowSeconds)

\* C31: in cron mode no fire time is seen as due by two different ticks.
\* A tick's due-check comes at least 60 seconds after the one before, and
\* when both find an expression due, the later one does so for a later
\* fire time.
C31_FireTimeSeenOnce ==
    [][(Tick /\ CronMode(schedCfg) /\ tickTime # None) =>
          /\ now >= tickTime[1] + TickSeconds
          /\ (sync_needed /\ sync_needed') =>
                SeenFireTime(schedCfg.sync_schedule, tickTime[1])
                    < SeenFireTime(schedCfg.sync_schedule, now)
          /\ (diagnostic_needed /\ diagnostic_needed') =>
                SeenFireTime(schedCfg.diagnostic_schedule, tickTime[1])
                    < SeenFireTime(schedCfg.diagnostic_schedule, now)]_vars

\* C31 witness: two consecutive ticks both found the sync due, the later
\* one for a later fire time, and the sync pass is dispatched again.
C31_Witness ==
    /\ CronMode(schedCfg) /\ pc = "op_sync"
    /\ prevTick # None /\ tickTime # None
    /\ ShouldSyncCron(schedCfg.sync_schedule, prevTick[1])
    /\ sync_needed
    /\ SeenFireTime(schedCfg.sync_schedule, prevTick[1])
           < SeenFireTime(schedCfg.sync_schedule, tickTime[1])

\* The latest sync pass failed or raised: none has succeeded since it ended.
LatestSyncFailed ==
    lastSyncEnd # None /\ (last_sync = None \/ last_sync[1] < lastSyncEnd[1])

\* C32: in interval mode (intervalHours = H > 0) a tick after a failed sync
\* pass finds the sync due, until a sync pass succeeds; a tick less than H
\* hours after the completion of the last successful pass does not find it
\* due, whatever the sync cron expression says, and a sync pass starts only
\* when none has succeeded or the last success is at least H hours old.
C32_IntervalMode ==
    [][schedCfg.sync_interval_hours > 0 =>
          /\ (Tick /\ LatestSyncFailed) => sync_needed'
          /\ (Tick /\ last_sync # None
                    /\ now < last_sync[1] + schedCfg.sync_interval_hours * HourSeconds)
                => ~sync_needed'
          /\ (TickSync /\ last_sync # None)
                => now >= last_sync[1] + schedCfg.sync_interval_hours * HourSeconds]_vars

\* C32 witness: H hours after a successful pass the sync was due and its
\* pass failed; the tick after it found the sync due again and dispatched it.
C32_Witness ==
    /\ schedCfg.sync_interval_hours > 0
    /\ pc = "op_sync"
    /\ last_sync # None /\ LatestSyncFailed
    /\ lastOutcome \in {"fail", "raise"}
    /\ lastSyncEnd[1] >= last_sync[1] + schedCfg.sync_interval_hours * HourSeconds

\* C33: in daemon mode a pass never starts right after the pass before it:
\* when a tick dispatches a pass and no shutdown was signalled, a full tick
\* wait of 60 seconds lies between the end of the previous pass and this
\* tick.  The pass before the first tick is the initial sync; the passes
\* before a later tick ended before the tick wait that has just run out.
C33_PassesSeparatedByWait ==
    [][(Tick /\ sigAt = None /\ pc' \in {"op_diag", "op_sync"}) =>
          /\ loop_count = 0 => now >= lastSyncEnd[1] + TickSeconds
          /\ loop_count > 0 =>
                /\ now >= end_time
                /\ lastSyncEnd[1] + TickSeconds <= end_time]_vars

\* The same for the ticks after the first one only.
C33_LaterTicksSeparatedByWait ==
    [][(Tick /\ sigAt = None /\ pc' \in {"op_diag", "op_sync"} /\ loop_count > 0) =>
          /\ now >= end_time
          /\ lastSyncEnd[1] + TickSeconds <= end_time]_vars

(***************************************************************************)
(* Claims about the reconciler applied to drawn inputs (SpecFn).           *)
(***************************************************************************)
\* The values of a list of reminder days.
DaySet(days) == {days[i] : i \in 1..Len(days)}

\* C13: reminder comparison is order-independent.  When the existing event
\* was created with reminder days R1 and the configuration now lists the
\* same days R2 in any order, title and description unchanged and
\* updateExisting true, reconcile returns Skipped and writes nothing.
C13_ReminderOrderIndependent ==
    (/\ fn.op = "reconcile_again"
     /\ fn.first_kind = "created"
     /\ DaySet(fn.first_days) = DaySet(fn.second_days)) =>
        /\ fn.kind = "skipped"
        /\ ~fn.ret
        /\ fn.saves = 0
        /\ fn.events = fn.existing

\* C13 witness: the event has alarms 7 and 1 days before, the configuration
\* lists 1,7, and the call is skipped.
C13_Witness ==
    /\ fn.op = "reconcile_again"
    /\ fn.first_days = <<7, 1>>
    /\ fn.second_days = <<1, 7>>
    /\ Len(fn.existing) = 1
    /\ Len(fn.existing[1].alarms) = 2
    /\ fn.existing[1].alarms[1].trigger = 0 - 7
    /\ fn.kind = "skipped"

\* C14: for every name and every reminder template, the message for
\* daysBefore = 0 never contains "0 days" and the message for daysBefore = 1
\* never contains "1 days".
C14_NoZeroDaysNoOneDays ==
    (fn.op = "format_reminder" /\ fn.result.err = "none") =>
        /\ fn.days_before = 0 => ~Contains(fn.result.text, <<"0", " ", "d", "a", "y", "s">>)
        /\ fn.days_before = 1 => ~Contains(fn.result.text, <<"1", " ", "d", "a", "y", "s">>)

\* C15 as stated: under the default configuration, Bob (BDAY:--06-15)
\* reconciled for 2025 against an empty calendar gets an event dated
\* 2025-06-15 with UID birthday-bob-20250615, yearly recurrence and exactly
\* one alarm one day before with the message "Tomorrow is Bob's birthday!".
C15_BobScenarioTomorrow ==
    (/\ fn.op = "create"
     /\ fn.config = DefaultBdayCfg
     /\ fn.contact.name = <<"B", "o", "b">>
     /\ fn.year = 2025) =>
        /\ fn.kind = "created"
        /\ Len(fn.events) = 1
        /\ fn.events[1].date = <<2025, 6, 15>>
        /\ fn.events[1].uid = <<"b", "i", "r", "t", "h", "d", "a", "y", "-", "b", "o", "b", "-", "2", "0", "2", "5", "0", "6", "1", "5">>
        /\ fn.events[1].rrule = <<"F", "R", "E", "Q", "=", "Y", "E", "A", "R", "L", "Y">>
        /\ Len(fn.events[1].alarms) = 1
        /\ fn.events[1].alarms[1].trigger = 0 - 1
        /\ fn.events[1].alarms[1].description = <<"T", "o", "m", "o", "r", "r", "o", "w", " ", "i", "s", " ", "B", "o", "b", "'", "s", " ", "b", "i", "r", "t", "h", "d", "a", "y", "!">>

\* C15 amended: the same scenario, with the message the default reminder
\* template renders: "Reminder: Bob's birthday is in 1 day!".
C15_BobScenario ==
    (/\ fn.op = "create"
     /\ fn.config = DefaultBdayCfg
     /\ fn.contact.name = <<"B", "o", "b">>
     /\ fn.year = 2025) =>
        /\ fn.kind = "created"
        /\ Len(fn.events) = 1
        /\ fn.events[1].date = <<2025, 6, 15>>
        /\ fn.events[1].uid = <<"b", "i", "r", "t", "h", "d", "a", "y", "-", "b", "o", "b", "-", "2", "0", "2", "5", "0", "6", "1", "5">>
        /\ fn.events[1].rrule = <<"F", "R", "E", "Q", "=", "Y", "E", "A", "R", "L", "Y">>
        /\ Len(fn.events[1].alarms) = 1
        /\ fn.events[1].alarms[1].trigger = 0 - 1
        /\ fn.events[1].alarms[1].description
              = <<"R", "e", "m", "i", "n", "d", "e", "r", ":", " ", "B", "o", "b", "'", "s", " ", "b", "i", "r", "t", "h", "d", "a", "y", " ", "i", "s", " ", "i", "n", " ", "1", " ", "d", "a", "y", "!">>

\* C15 witness: Bob's event of 2025 was created under the default
\* configuration, from the birthday parsed out of BDAY:--06-15.
C15_Witness ==
    /\ fn.op = "create"
    /\ fn.config = DefaultBdayCfg
    /\ fn.contact = ParseVcard(BobCard)[1]
    /\ fn.contact.birthday = <<6, 15>>
    /\ fn.year = 2025
    /\ fn.kind = "created"
    /\ fn.events[1].summary = Some(<<"@", " ", "B", "o", "b", "'", "s", " ", "B", "i", "r", "t", "h", "d", "a", "y">>)

\* C16: the UID of a created event is "birthday-", the name in lower case
\* with every space turned into "-", "-", and the event date as YYYYMMDD,
\* the date being the birthday's month and day in the target year; Ada
\* Lovelace, 12-10, 2025 gives birthday-ada-lovelace-20251210.
C16_UidFormat ==
    (fn.op = "create" /\ fn.kind = "created") =>
        LET uid == fn.events[1].uid
            name == fn.contact.name
            n == Len(name)
        IN  /\ Len(uid) = 9 + n + 1 + 8
            /\ SubSeq(uid, 1, 9) = <<"b", "i", "r", "t", "h", "d", "a", "y", "-">>
            /\ \A i \in 1..n :
                  uid[9 + i] = IF name[i] = " " THEN "-" ELSE LowerChar(name[i])
            /\ uid[9 + n + 1] = "-"
            /\ NatVal(SubSeq(uid, 9 + n + 2, 9 + n + 5)) = fn.year
            /\ NatVal(SubSeq(uid, 9 + n + 6, 9 + n + 7)) = fn.contact.birthday[1]
            /\ NatVal(SubSeq(uid, 9 + n + 8, 9 + n + 9)) = fn.contact.birthday[2]
            /\ fn.events[1].date
                  = <<fn.year, fn.contact.birthday[1], fn.contact.birthday[2]>>
            /\ (name = <<"A", "d", "a", " ", "L", "o", "v", "e", "l", "a", "c", "e">> /\ fn.year = 2025) =>
                  uid = <<"b", "i", "r", "t", "h", "d", "a", "y", "-", "a", "d", "a", "-", "l", "o", "v", "e", "l", "a", "c", "e", "-", "2", "0", "2", "5", "1", "2", "1", "0">>

\* C16 witness: Ada Lovelace's event of 2025 carries that UID.
C16_Witness ==
    /\ fn.op = "create"
    /\ fn.contact.name = <<"A", "d", "a", " ", "L", "o", "v", "e", "l", "a", "c", "e">>
    /\ fn.contact.birthday = <<12, 10>>
    /\ fn.year = 2025
    /\ fn.kind = "created"
    /\ fn.events[1].uid = <<"b", "i", "r", "t", "h", "d", "a", "y", "-", "a", "d", "a", "-", "l", "o", "v", "e", "l", "a", "c", "e", "-", "2", "0", "2", "5", "1", "2", "1", "0">>

\* The call found an event on the day: a call the claims about matching
\* existing events speak of.
FoundExisting == fn.op = "reconcile_existing" /\ fn.found # 0

\* The existing event carries the title, the description and the reminder
\* days the configuration computes for the contact.
UpToDate(c, contact, e) ==
    /\ e.summary = Some(Format(c.event_title_template, NameArgs(contact.name)).text)
    /\ e.description
          = Some(Format(c.event_description_template, NameArgs(contact.name)).text)
    /\ Len(e.alarms) = Len(c.reminder_days)
    /\ {AbsInt(e.alarms[k].trigger) : k \in 1..Len(e.alarms)} = DaySet(c.reminder_days)

\* Every reminder message of the configuration renders for the name.
RemindersRender(c, name) ==
    \A k \in 1..Len(c.reminder_days) :
        FormatReminderMessage(c.reminder_template, name, c.reminder_days[k]).err = "none"

C22_NoUpdateSkips ==
    (FoundExisting /\ ~fn.config.update_existing) =>
        /\ fn.kind = "skipped" /\ ~fn.ret
        /\ fn.saves = 0
        /\ fn.events = fn.existing

\* C22 witness: the existing event is titled "Party: Ann", the default
\* title differs, and the call under updateExisting = false skips it.
C22_Witness ==
    /\ FoundExisting
    /\ fn.config = NoUpdateCfg
    /\ fn.contact = Ann
    /\ fn.existing[fn.found].summary = Some(<<"P", "a", "r", "t", "y", ":", " ", "A", "n", "n">>)
    /\ fn.kind = "skipped"
    /\ fn.events = fn.existing

\* C23: a reminder template that fails to render never fails the call.
\* _format_reminder_message returns the fixed phrase of its case (today,
\* tomorrow, in N days) whenever str.format raises on the template, and a
\* create_birthday_event call whose save is accepted goes on to create or
\* update (or skip) the event, whatever the reminder template.
C23_RenderErrorFallsBack ==
    /\ (/\ fn.op = "format_reminder"
        /\ Format(fn.template, NameDaysArgs(fn.name, fn.days_before)).err # "none") =>
            fn.result = Rendered(ReminderFallback(fn.name, fn.days_before))
    /\ (fn.op = "reconcile_existing" /\ fn.saveOk) => fn.kind # "failed"

\* Name with its letters lowercased and every run of spaces reduced to one
\* space: the case- and whitespace-normalized name.
RECURSIVE Squeeze(_)
Squeeze(s) ==
    IF Len(s) < 2 THEN s
    ELSE IF s[1] = " " /\ s[2] = " " THEN Squeeze(Tail(s))
    ELSE <<s[1]>> \o Squeeze(Tail(s))

Normalized(name) == Squeeze(Lower(Strip(name)))

\* C25: the lookup matches an event of the day if and only if (a) its
\* summary contains the contact name and, case-insensitively, the
\* configured category or the word "birthday", or (b) its UID starts with
\* "birthday-" followed by the normalized name; either alone qualifies,
\* also for an event that has no summary.
C25_LookupMatch ==
    fn.op = "find_existing" =>
        LET e == fn.event
            name == fn.contact.name
            bySummary ==
                /\ e.summary # None
                /\ Contains(e.summary[1], name)
                /\ \/ Contains(Lower(e.summary[1]), Lower(fn.config.event_category))
                   \/ Contains(Lower(e.summary[1]), <<"b", "i", "r", "t", "h", "d", "a", "y">>)
            byUid == StartsWith(e.uid, <<"b", "i", "r", "t", "h", "d", "a", "y", "-">> \o Lower(Replace(name, <<" ">>, <<"-">>)))
        IN  fn.found <=> (bySummary \/ byUid)

\* C26: the UID is a function of the normalized name and the date.  Two
\* names that differ only in letter case or in the amount of whitespace
\* give the same UID for the same date, and computing the UID of a name
\* again gives the same UID.
C26_UidOfNormalizedName ==
    fn.op = "event_uid" =>
        /\ fn.uid_again = fn.uid
        /\ Normalized(fn.name) = Normalized(fn.other) => fn.uid = fn.other_uid

\* 29 February of a year that is not a leap year.
Feb29OfCommonYear(y, m, d) ==
    m = 2 /\ d = 29 /\ ~((y % 4 = 0 /\ y % 100 # 0) \/ y % 400 = 0)

\* The contact and year of every call of a pass over cs, in order.
CallTargets(calls) ==
    [n \in 1..Len(calls) |-> [idx |-> calls[n].idx, year |-> calls[n].year]]

\* C24: a birthday that is no date of the target year (29 February in a
\* year that is not a leap year) makes the call Failed without a lookup and
\* without a save, and the pass goes on: it makes the calls for both years
\* of every contact, in order.
C24_InvalidDateFails ==
    fn.op = "two_passes" =>
        \A calls \in {fn.first, fn.second} :
            /\ CallTargets(calls) = ExpectedPassCalls(fn.contacts)
            /\ \A n \in 1..Len(calls) :
                  LET k == fn.contacts[calls[n].idx] IN
                  Feb29OfCommonYear(calls[n].year, k.birthday[1], k.birthday[2]) =>
                      /\ calls[n].kind = "failed" /\ ~calls[n].ret
                      /\ calls[n].lookups = 0 /\ calls[n].saves = 0
                      /\ fn.calendar[<<calls[n].year, 2, 29>>] = <<>>

\* C24 witness: Zoe, born on 29 February, fails for 2027, is created for
\* the leap year 2028, and Ann's calls follow.
C24_Witness ==
    /\ fn.op = "two_passes"
    /\ fn.contacts = <<Zoe, Ann>>
    /\ fn.first[1].year = 2027 /\ fn.first[1].kind = "failed"
    /\ fn.first[2].year = 2028 /\ fn.first[2].kind = "created"
    /\ fn.first[3].idx = 2 /\ fn.first[3].kind = "created"
    /\ fn.first_count = 3

\* C28: pass-level convergence.  For contacts with pairwise distinct names,
\* under an unchanged configuration with updateExisting = true and a sink
\* that accepts every request, the second of two passes run one after the
\* other creates nothing and updates nothing: its count is 0.
C28_SecondPassDoesNothing ==
    (/\ fn.op = "two_passes"
     /\ fn.config.update_existing
     /\ \A i, j \in 1..Len(fn.contacts) :
            i # j => fn.contacts[i].name # fn.contacts[j].name) =>
        /\ fn.second_count = 0
        /\ \A n \in 1..Len(fn.second) : fn.second[n].kind \notin {"created", "updated"}

\* The event was created for contact k: it carries k's UID of the day.
CreatedFor(e, k) == e.uid = EventUid(k.name, e.date)

\* C29: isolation between contacts.  A call for contact A leaves every
\* event of the day that was created for a contact B with another
\* normalized name exactly as it was.
C29_ContactsIsolated ==
    fn.op = "reconcile_existing" =>
        \A i \in 1..Len(fn.existing), b \in EventOwners :
            (/\ CreatedFor(fn.existing[i], b)
             /\ Normalized(b.name) # Normalized(fn.contact.name)) =>
                \E j \in 1..Len(fn.events) : fn.events[j] = fn.existing[i]

(***************************************************************************)
(* Claims about the reconciler and a failing event lookup (Spec).          *)
(***************************************************************************)
\* C34: reconcile submits a create only when the event lookup completed and
\* found no match: a call whose lookup failed (the search and the fallback
\* date search both raised) creates no event.  A call that ended as Created
\* had its save accepted, so a sink error it met was the lookup's.
C34_NoCreateAfterFailedLookup ==
    lastCall # None => ~(lastCall[1].sinkError /\ lastCall[1].kind = "created")

====
